---- MODULE Spec2Model ----
(***************************************************************************)
(* Model of @lume/variable: reactive variables (variable), auto-re-running *)
(* computations (autorun) and the two-way binding helper (circular).       *)
(*                                                                         *)
(* The JavaScript call stack is explicit: `stack` is a sequence of frames, *)
(* each frame a piece of straight-line code with a program counter.  A     *)
(* call made by client code (an "Ext..." action) is only possible while    *)
(* the stack is empty, and Step runs the pending call to completion one    *)
(* instruction at a time, so a client never sees a call half done.         *)
(***************************************************************************)
EXTENDS Integers, Sequences, FiniteSets, TLC

(* ------------------------------ bounds -------------------------------- *)

\* Number of computations a behaviour may create.
MaxComps == 3

\* Number of calls the client program makes.
MaxOps == 5

\* Number of autoruns created by the client that only reads and writes.
MaxAutoruns == 2

\* Number of calls made by the client whose autoruns write variables.
MaxRelayOps == 4

\* Largest value the client writes.
MaxVal == 2

\* Depth at which the host's call stack is exhausted.
MaxDepth == 12

\* Number of objects a behaviour may construct.
MaxObjs == 2

\* Number of calls made by the client that uses untrack.
MaxUntrackOps == 4

\* Number of calls made by the client that reads and writes one variable
\* in every way the library offers.
MaxValueOps == 4

\* Number of calls made by the client that writes two variables in a row.
MaxPairOps == 4

\* Number of calls made by the client whose autorun creates an autorun.
MaxNestedOps == 4

\* Number of calls made by the client whose autoruns write what they read.
MaxCycleOps == 4

\* Number of calls made by the client that reads and assigns the reactive
\* properties of one object.
MaxButterflyOps == 5

\* Number of calls made by the client that constructs decorated classes.
MaxDecoratedOps == 4

\* Number of calls made by the client that defines properties of every kind
\* on an object and calls reactify on them.
MaxDescriptorOps == 5

\* Number of calls made by the client with two instances of one class.
MaxInstanceOps == 5

\* Number of calls made by the client that watches who subscribes to a.
MaxSubscribeOps == 5

\* Number of calls made by the client whose autoruns re-run one another.
MaxReentrantOps == 4

\* Number of calls made by the client whose autoruns call stop functions.
MaxStoppingOps == 4

\* Number of calls made by the client whose autorun writes before it reads.
MaxRetrackOps == 4

\* Number of calls made by the client whose objects share a prototype
\* that has a reactive property.
MaxSharedOps == 5

\* Number of calls made by the client whose setters read a third variable.
MaxSetterOps == 4

\* Number of calls made by the client one of whose setters does not write.
MaxAbsorbOps == 4

\* Number of calls made by the client with two bindings that share b, and
\* the computations those two bindings create.
MaxChainOps == 5

MaxChainComps == 4

(* ----------------------------- vocabulary ----------------------------- *)

\* The reactive variables of the client program.
VarIds == {"a", "b", "c"}

\* The objects the client constructs and their properties: each object has
\* its own slot per property (instance[vName]).
Objs == 1 .. MaxObjs

\* The object the client's function-style class has as its prototype.
Proto == MaxObjs + 1

AllObjs == Objs \cup {Proto}

PropNames == {"amount", "double", "colors", "wingSize", "_wingSize"}

PropSlot(o, p) == p \o ToString(o)

PropIds == {PropSlot(o, p) : o \in AllObjs, p \in PropNames}

\* The slot of the same property on the prototype of the slot's object.
ProtoOf(x) ==
    CHOOSE y \in PropIds :
        \E o \in AllObjs, p \in PropNames : x = PropSlot(o, p) /\ y = PropSlot(Proto, p)

\* The slot of the field that the accessor pair of wingSize works on:
\* get wingSize() { return this._wingSize }, set wingSize(s) { this._wingSize = s }.
BackingOf(x) ==
    CHOOSE y \in PropIds :
        \E o \in AllObjs : x = PropSlot(o, "wingSize") /\ y = PropSlot(o, "_wingSize")

\* What a property is before it is made reactive: no property, a data
\* property (writable or not), or an accessor with both functions or one.
Descriptors == {"absent", "data", "frozen", "accessor", "getter", "setter"}

\* Everything that can hold a signal.
Signals == VarIds \cup PropIds

Comps == 1 .. (IF MaxChainComps > MaxComps THEN MaxChainComps ELSE MaxComps)

\* typeof value === 'undefined'
Undefined == -1

\* Values the client passes to a write call.
Values == 0 .. MaxVal

NoComp == 0

VARIABLES
    value,        \* Signals -> current value of the signal (or plain field)
    observers,    \* Signals -> subscriber list, in subscription order
    sources,      \* Comps  -> set of variables read on the current/last run
    status,       \* Comps  -> "none" | "live" | "disposed"
    code,         \* Comps  -> the body of the computation
    runCount,     \* Comps  -> number of times the body was started
    nComps,       \* computations created so far
    stack,        \* the call stack, innermost frame last
    initial,      \* BindIds -> the `initial` token of that circular() call
    binding,      \* BindIds -> the two computations of that circular() call
    setterCalls,  \* BindIds -> <<calls of setFirst, calls of setSecond>>
    error,        \* TRUE once an exception reached the outermost caller
    returned,     \* Comps -> value returned by the computation's latest finished run
    result,       \* value returned to the client by its latest finished call
    nObjs,        \* objects constructed so far
    reactified,   \* property slots that have a reactive accessor
    descr,        \* PropIds -> the property's descriptor apart from reactivity
    made,         \* property slots whose object holds a variable (instance[vName])
    __reactifiedProps__, \* slots (o, p) with p in the Set that o itself holds
    warnings,     \* calls of console.warn so far
    ops,          \* calls made by the client so far
    notified,     \* Comps -> writes made to a variable the computation had read
    stopCalled,   \* computations whose stop function has been called
    readEver,     \* Comps -> variables the computation has read on any run
    readLast,     \* Comps -> variables the body read on its current or latest run
    inflight,     \* the writes made during the client's current call
    received,     \* Comps -> argument of the latest run and result of the run before
    lastResult,   \* Comps -> value the body returned on its latest finished run
    createdBy,    \* Comps -> computation that was running when autorun was called
    written,      \* Signals -> value most recently given to the variable
    lastOp        \* the client's most recent call, with the state it was made in

vars == <<value, observers, sources, status, code, runCount, nComps, stack,
          initial, binding, setterCalls, error, returned, result, nObjs,
          reactified, descr, made, __reactifiedProps__, warnings, ops, notified, stopCalled, readEver, readLast, inflight, received, lastResult, createdBy,
          written, lastOp>>

\* The state as one record, for the operators that compute a call's effect.
State ==
    [value |-> value, observers |-> observers, sources |-> sources,
     status |-> status, code |-> code, runCount |-> runCount,
     nComps |-> nComps, stack |-> stack, initial |-> initial,
     binding |-> binding, setterCalls |-> setterCalls, error |-> error,
     returned |-> returned, result |-> result, nObjs |-> nObjs,
     reactified |-> reactified, descr |-> descr, made |-> made,
     __reactifiedProps__ |-> __reactifiedProps__,
     warnings |-> warnings,
     notified |-> notified, stopCalled |-> stopCalled, readEver |-> readEver,
     readLast |-> readLast,
     inflight |-> inflight, received |-> received, lastResult |-> lastResult,
     createdBy |-> createdBy, written |-> written]

Becomes(s) ==
    /\ value' = s.value
    /\ observers' = s.observers
    /\ sources' = s.sources
    /\ status' = s.status
    /\ code' = s.code
    /\ runCount' = s.runCount
    /\ nComps' = s.nComps
    /\ stack' = s.stack
    /\ initial' = s.initial
    /\ binding' = s.binding
    /\ setterCalls' = s.setterCalls
    /\ error' = s.error
    /\ returned' = s.returned
    /\ result' = s.result
    /\ nObjs' = s.nObjs
    /\ reactified' = s.reactified
    /\ descr' = s.descr
    /\ made' = s.made
    /\ __reactifiedProps__' = s.__reactifiedProps__
    /\ warnings' = s.warnings
    /\ notified' = s.notified
    /\ stopCalled' = s.stopCalled
    /\ readEver' = s.readEver
    /\ readLast' = s.readLast
    /\ inflight' = s.inflight
    /\ received' = s.received
    /\ lastResult' = s.lastResult
    /\ createdBy' = s.createdBy
    /\ written' = s.written

(* ---------------------------- instructions ---------------------------- *)

\* One instruction of a function body: op, a variable, an expression and a
\* number (a constant, a computation or a body, depending on op).
Ins(op, x, f, n) == [op |-> op, x |-> x, f |-> f, n |-> n]

Get(x) == Ins("get", x, "", 0)
GetIf(x) == Ins("getif", x, "", 0)
SetConst(x, v) == Ins("set", x, "const", v)
SetExpr(x, f) == Ins("set", x, f, 0)

\* v.get() and v.set(value), or the pair taken from v by destructuring.
Getter(x) == Ins("getter", x, "", 0)
Setter(x, v) == Ins("setter", x, "const", v)

\* if (x()) { the next k instructions }
When(x, k) == Ins("when", x, "", k)

\* The function's return value: return <expression of the value last read>.
Result(f) == Ins("result", "", f, 0)

\* untrack(fn), autorun(fn) and new Class() inside a function body; n names
\* fn or the class.
Untrack(n) == Ins("untrack", "", "", n)
Autorun(n) == Ins("autorun", "", "", n)
New(n) == Ins("new", "", "", n)

\* if (stop) stop(), stop being the variable the client assigns the stop
\* function of the autorun that creates computation n.
StopIf(n) == Ins("stopif", "", "", n)

\* Inside a constructor or a function that closes over `this`: the class
\* field p = v, reactify(this, [p]), this.p, and this.p = <expression>.
Field(p, v) == Ins("field", p, "const", v)
Reactify(p) == Ins("reactify", p, "", 0)
GetProp(p) == Ins("pget", p, "", 0)
SetProp(p, f) == Ins("pset", p, f, 0)

\* In a class body: the accessor pair (or half pair) the class declares
\* for p, or a property of p defined with Object.defineProperty.
Declare(p, kind) == Ins("declare", p, kind, 0)

\* By the client, on the object o it holds: a property put on o (the value
\* v of a data property, or an accessor), reactify(o, [p]), o.p, and
\* o.p = <expression>.
Define(o, p, kind, v) == Ins("define", PropSlot(o, p), kind, v)
ReactifyOf(o, p) == Ins("oreactify", PropSlot(o, p), "", 0)
GetOf(o, p) == Ins("oget", PropSlot(o, p), "", 0)
SetOf(o, p, f, v) == Ins("oset", PropSlot(o, p), f, v)

\* The value of the argument expression of a write, given the value last read.
Eval(f, acc, n) ==
    CASE f = "const" -> n
      [] f = "acc" -> acc
      [] f = "dbl" -> acc * 2
      [] f = "half" -> acc \div 2
      [] f = "inc" -> acc + 1
      [] OTHER -> Undefined

\* A call frame: the function's code and position, the value last computed,
\* the computation whose run this frame is (self), the computation reads are
\* attributed to (listener), the value the function returns, whether the
\* caller uses that value, and the object `this` stands for (0: none).
Frame(c, self, listener, acc) ==
    [code |-> c, pc |-> 1, acc |-> acc, self |-> self, listener |-> listener,
     result |-> Undefined, used |-> FALSE, this |-> 0]

Top(s) == s.stack[Len(s.stack)]

\* The computation that reads are attributed to, NoComp when there is none.
Listener(s) == IF s.stack = <<>> THEN NoComp ELSE Top(s).listener

\* A call one level deeper; the host throws RangeError when the stack is
\* exhausted and the exception unwinds every frame.
Push(s, fr) ==
    IF Len(s.stack) >= MaxDepth
    THEN [s EXCEPT !.stack = <<>>, !.error = TRUE]
    ELSE [s EXCEPT !.stack = Append(@, fr)]

SetAcc(s, v) == [s EXCEPT !.stack[Len(s.stack)].acc = v]

\* An exception nobody catches: it unwinds every frame and reaches the
\* client.
Throw(s) == [s EXCEPT !.stack = <<>>, !.error = TRUE]

Remove(seq, c) == SelectSeq(seq, LAMBDA e : e # c)

Contains(seq, c) == \E i \in 1 .. Len(seq) : seq[i] = c

(* ------------------------- signals (solid-js) ------------------------- *)

\* A signal read that moves the active computation to the end of the list.
readSignal_moveToEnd(s, x) ==
    LET l == Listener(s) IN
    IF l = NoComp \/ s.status[l] # "live"
    THEN s
    ELSE [s EXCEPT !.sources[l] = @ \cup {x},
                   !.observers[x] = Append(Remove(@, l), l)]

\* A signal read that subscribes the active computation on every read.
readSignal_everyRead(s, x) ==
    LET l == Listener(s) IN
    IF l = NoComp \/ s.status[l] # "live"
    THEN s
    ELSE [s EXCEPT !.sources[l] = @ \cup {x}, !.observers[x] = Append(@, l)]

\* Signal read: returns the value; under an active computation it adds the
\* computation to the subscriber list (once) and the signal to the
\* computation's dependency set.
readSignal(s, x) ==
    LET l == Listener(s) IN
    IF l = NoComp \/ s.status[l] # "live"
    THEN s
    ELSE [s EXCEPT !.sources[l] = @ \cup {x},
                   !.observers[x] = IF Contains(@, l) THEN @ ELSE Append(@, l)]

Reverse(seq) == [j \in 1 .. Len(seq) |-> seq[Len(seq) + 1 - j]]

\* The subscribers taken latest first.
Subscribers_reversed(s, x) ==
    Reverse(SelectSeq(s.observers[x], LAMBDA c : x \in s.sources[c]))

\* The computations a write to x notifies, in subscriber order.
Subscribers(s, x) ==
    SelectSeq(s.observers[x], LAMBDA c : x \in s.sources[c])

\* A write that, when made while subscribers of an earlier write are being
\* re-run, adds its subscribers to that pending batch and returns.
writeSignal_batched(s, x, v) ==
    LET subs == Subscribers(s, x)
        s1 == [s EXCEPT !.value[x] = v]
        reruns == [j \in 1 .. Len(subs) |-> Ins("rerun", "", "", subs[j])]
        B == {j \in 1 .. Len(s.stack) :
                s.stack[j].code # <<>> /\ s.stack[j].code[1].op = "rerun"}
    IN  IF subs = <<>>
        THEN s1
        ELSE IF B = {}
             THEN Push(s1, Frame(reruns, NoComp, NoComp, 0))
             ELSE [s1 EXCEPT !.stack[CHOOSE j \in B : \A m \in B : j <= m].code = @ \o reruns]

\* Signal write with equals: false: stores the value, then re-runs each
\* subscriber in subscriber order before returning.
writeSignal(s, x, v) ==
    LET subs == Subscribers(s, x)
        s1 == [s EXCEPT !.value[x] = v]
    IN  IF subs = <<>>
        THEN s1
        ELSE Push(s1, Frame([i \in 1 .. Len(subs) |-> Ins("rerun", "", "", subs[i])],
                            NoComp, NoComp, 0))

\* A run that does not ask whether the computation was disposed.
runComputation_unchecked(s, c) ==
    Push([s EXCEPT !.runCount[c] = @ + 1, !.sources[c] = {}],
         Frame(s.code[c], c, c, s.returned[c]))

\* A run that leaves the enclosing run's computation as the active one.
runComputation_outerListener(s, c) ==
    IF s.status[c] # "live"
    THEN s
    ELSE LET R == {j \in 1 .. Len(s.stack) : s.stack[j].self # NoComp}
             outer == IF R = {} THEN c
                      ELSE s.stack[CHOOSE j \in R : \A m \in R : m <= j].self
         IN  Push([s EXCEPT !.runCount[c] = @ + 1, !.sources[c] = {}],
                  Frame(s.code[c], c, outer, s.returned[c]))

\* A run that keeps the dependencies of the earlier runs.
runComputation_keepSources(s, c) ==
    IF s.status[c] # "live"
    THEN s
    ELSE Push([s EXCEPT !.runCount[c] = @ + 1], Frame(s.code[c], c, c, s.returned[c]))

\* A computation's run: the dependency set is cleared and the body executes
\* with the computation as the listener and the value its previous run
\* returned as the argument.  A disposed computation is not run.
runComputation(s, c) ==
    IF s.status[c] # "live"
    THEN s
    ELSE Push([s EXCEPT !.runCount[c] = @ + 1, !.sources[c] = {}],
              Frame(s.code[c], c, c, s.returned[c]))

\* End of a run: signals read on an earlier run and not on this one are
\* unsubscribed.
endRun(s, c) ==
    [s EXCEPT !.observers =
        [x \in Signals |-> IF x \in s.sources[c] THEN @[x] ELSE Remove(@[x], c)]]

\* Disposal of a root: idempotent; the computation leaves every subscriber
\* list and is never run again.
dispose(s, c) ==
    IF s.status[c] # "live"
    THEN s
    ELSE [s EXCEPT !.status[c] = "disposed",
                   !.sources[c] = {},
                   !.observers = [x \in Signals |-> Remove(@[x], c)]]

\* createRoot(dispose => { ...; createEffect(f) }): a new root owning one new
\* computation, which runs at once.
createEffect(s, body) ==
    LET c == s.nComps + 1
        s1 == [s EXCEPT !.nComps = c, !.status[c] = "live", !.code[c] = body]
    IN  runComputation(s1, c)

(* -------------------------- client functions -------------------------- *)

\* The functions the client passes to autorun.
\*   1  () => { a() }                       reads one variable
\*   2  () => { a(); b() }                  reads two variables
\*   3  () => { if (c()) a() }              reads a only while c is truthy
\*   4  () => { b(a()) }                    copies a to b
\*   5  () => { c(b()) }                    copies b to c
\*   6  () => { b() }                       reads b
\*   7  () => { a(); untrack(() => b()) }
\*   8  () => { const r = untrack(f11); a(); return r }
\*   9  () => { c() }                       reads c
\*  10  () => b()
\*  11  () => { const v = b(); c(v); return 2 * v }
\*  12  () => { new Bar() }, Bar's constructor assigning inside untrack
\*  13  () => { new Bar() }, Bar's constructor assigning outside untrack
\*  14  () => a()                          returns the value it read
\*  15  () => { a(); autorun(() => { b() }) }
\*  16  () => { a(a() + 1) }               reads and writes a
\*  17  () => { if (c()) a(a() + 1) }
\*  18  () => { this.double = this.amount * 2 }, in Bar's constructor
\*  19  () => { b = new Bar() }, Bar and Foo decorated with @reactive
\*  20  () => { b.colors }, b the first object
\*  21  () => { b.colors; b.wingSize }, b the first object
\*  22  () => { b2.colors; b2.wingSize }, b2 the second object
\*  23  () => { b.amount }, b the first object
\*  24  () => { a(); a() }                 reads a twice
\*  25  () => { b(a()); c() }              reads c after writing b
\*  26  () => { a(); autorun(() => { b() }); c() }
\*  27  () => { a(); if (stop2) stop2() }, stop2 the second autorun's stop
\*  28  () => { a(); if (stop3) stop3(); b() }, stop3 the third autorun's
\*  29  () => { if (c()) a(1); a() }       writes a before reading it
\*  30  () => { b2.amount }, b2 the second object
ClientBody(n) ==
    CASE n = 1 -> <<Get("a")>>
      [] n = 2 -> <<Get("a"), Get("b")>>
      [] n = 3 -> <<Get("c"), GetIf("a")>>
      [] n = 4 -> <<Get("a"), SetExpr("b", "acc")>>
      [] n = 5 -> <<Get("b"), SetExpr("c", "acc")>>
      [] n = 6 -> <<Get("b")>>
      [] n = 7 -> <<Get("a"), Untrack(10)>>
      [] n = 8 -> <<Untrack(11), Result("acc"), Get("a")>>
      [] n = 9 -> <<Get("c")>>
      [] n = 10 -> <<Get("b"), Result("acc")>>
      [] n = 11 -> <<Get("b"), SetExpr("c", "acc"), Result("dbl")>>
      [] n = 12 -> <<New(2)>>
      [] n = 13 -> <<New(1)>>
      [] n = 14 -> <<Get("a"), Result("acc")>>
      [] n = 15 -> <<Get("a"), Autorun(6)>>
      [] n = 16 -> <<Get("a"), SetExpr("a", "inc")>>
      [] n = 17 -> <<When("c", 2), Get("a"), SetExpr("a", "inc")>>
      [] n = 18 -> <<GetProp("amount"), SetProp("double", "dbl")>>
      [] n = 19 -> <<New(5)>>
      [] n = 20 -> <<GetOf(1, "colors")>>
      [] n = 21 -> <<GetOf(1, "colors"), GetOf(1, "wingSize")>>
      [] n = 22 -> <<GetOf(2, "colors"), GetOf(2, "wingSize")>>
      [] n = 23 -> <<GetOf(1, "amount")>>
      [] n = 24 -> <<Get("a"), Get("a")>>
      [] n = 25 -> <<Get("a"), SetExpr("b", "acc"), Get("c")>>
      [] n = 26 -> <<Get("a"), Autorun(6), Get("c")>>
      [] n = 27 -> <<Get("a"), StopIf(2)>>
      [] n = 28 -> <<Get("a"), StopIf(3), Get("b")>>
      [] n = 29 -> <<When("c", 1), SetConst("a", 1), Get("a")>>
      [] n = 30 -> <<GetOf(2, "amount")>>
      [] OTHER -> <<>>

\* The constructors of the client's classes, super() inlined.
\*   1  class Foo { amount = 3; constructor() { reactify(this, ['amount']) } }
\*      class Bar extends Foo { double = 0; constructor() { super();
\*        reactify(this, ['double']); this.double = this.amount * 2 } }
\*   2  the same with untrack(() => { this.double = this.amount * 2 })
\*   3  class Butterfly { colors = 3; _wingSize = 2;
\*        get wingSize() { return this._wingSize }
\*        set wingSize(s) { this._wingSize = s }
\*        constructor() { reactify(this, ['colors', 'wingSize']) } }
\*   4  function Butterfly() {}, its properties being on the prototype
\*   5  @reactive class Foo { @reactive amount = 3 }
\*      @reactive class Bar extends Foo { @reactive double = 0; constructor() {
\*        super(); this.double = this.amount * 2 } }
\*      with the reactify(this, Class) that each decorated constructor ends in
\*   6  function Thing() { this.amount = 3; reactify(this, ['amount']) }
ClassBody(k) ==
    CASE k = 1 ->
            <<Field("amount", 3), Reactify("amount"), Field("double", 0),
              Reactify("double")>> \o ClientBody(18)
      [] k = 2 ->
            <<Field("amount", 3), Reactify("amount"), Field("double", 0),
              Reactify("double"), Untrack(18)>>
      [] k = 3 ->
            <<Field("colors", 3), Field("_wingSize", 2), Declare("wingSize", "accessor"),
              Reactify("colors"), Reactify("wingSize")>>
      [] k = 5 ->
            <<Field("amount", 3), Reactify("amount"), Field("double", 0)>>
            \o ClientBody(18) \o <<Reactify("double")>>
      [] k = 6 -> <<Field("amount", 3), Reactify("amount")>>
      [] OTHER -> <<>>

\* The classes that carry the @reactive class decorator.
Decorated(k) == k = 5

\* The arguments the client passes to circular.
\*   1  circular(a, () => a(b() / 2), b, () => b(a() * 2))
\*   2  circular(a, v => a(v), b, v => b(v))
\*   3  circular(a, () => a(c()), b, () => b(c()))
\*   4  circular(a, v => a(v), b, v => {})
\*   5  circular(b, v => b(v), c, v => c(v))
BindIds == 1 .. 5

BindArgs(k) ==
    CASE k = 1 -> [first |-> "a", second |-> "b",
                   setFirst |-> <<Get("b"), SetExpr("a", "half")>>,
                   setSecond |-> <<Get("a"), SetExpr("b", "dbl")>>]
      [] k = 3 -> [first |-> "a", second |-> "b",
                   setFirst |-> <<Get("c"), SetExpr("a", "acc")>>,
                   setSecond |-> <<Get("c"), SetExpr("b", "acc")>>]
      [] k = 4 -> [first |-> "a", second |-> "b",
                   setFirst |-> <<SetExpr("a", "acc")>>,
                   setSecond |-> <<>>]
      [] k = 5 -> [first |-> "b", second |-> "c",
                   setFirst |-> <<SetExpr("b", "acc")>>,
                   setSecond |-> <<SetExpr("c", "acc")>>]
      [] OTHER -> [first |-> "a", second |-> "b",
                   setFirst |-> <<SetExpr("a", "acc")>>,
                   setSecond |-> <<SetExpr("b", "acc")>>]

(* ------------------------- the library's code ------------------------- *)

\* variable as it would be with the signal's default equality check: a write
\* of the value the variable already holds notifies nobody.
variable_defaultEquals(s, x, v) ==
    IF v = Undefined
    THEN SetAcc(readSignal(s, x), s.value[x])
    ELSE IF v = s.value[x] THEN SetAcc(s, v) ELSE writeSignal(SetAcc(s, v), x, v)

\* variable with one signal for the whole module instead of one per call
\* of variable(): every variable reads and writes the signal of a.
variable_sharedSignal(s, x, v) ==
    IF v = Undefined
    THEN SetAcc(readSignal(s, "a"), s.value["a"])
    ELSE writeSignal(SetAcc(s, v), "a", v)

\* variable with a guard against feedback: a write made by a computation to
\* a variable it has read on this run is stored and notifies nobody.
variable_guarded(s, x, v) ==
    IF v = Undefined
    THEN SetAcc(readSignal(s, x), s.value[x])
    ELSE IF Listener(s) # NoComp /\ x \in s.sources[Listener(s)]
         THEN [SetAcc(s, v) EXCEPT !.value[x] = v]
         ELSE writeSignal(SetAcc(s, v), x, v)

\* variable(value)(v): a call with undefined reads, any other call writes.
variable(s, x, v) ==
    IF v = Undefined
    THEN SetAcc(readSignal(s, x), s.value[x])
    ELSE writeSignal(SetAcc(s, v), x, v)

\* variable.get and variable[0]: readVariable bound to the variable.
readVariable(s, x) == variable(s, x, Undefined)

\* variable.set and variable[1]: writeVariable bound to the variable.
writeVariable(s, x, v) == variable(s, x, v)

\* autorun as it would be if the first run were left to the next write.
autorun_deferred(s, f) ==
    LET c == s.nComps + 1 IN
    [SetAcc(s, c) EXCEPT !.nComps = c, !.status[c] = "live", !.code[c] = f,
                         !.sources[c] = VarIds,
                         !.observers = [x \in Signals |-> IF x \in VarIds THEN Append(@[x], c) ELSE @[x]]]

\* autorun calling createEffect(f, 0): the first run is handed 0.
autorun_seeded(s, f) ==
    createEffect([SetAcc(s, s.nComps + 1) EXCEPT !.returned[s.nComps + 1] = 0], f)

\* autorun(f): runs f once in a root of its own and returns the stop
\* function, which disposes that root.
autorun(s, f) == createEffect(SetAcc(s, s.nComps + 1), f)

\* A stop function that does nothing.
stop_noop(s, c) == s

\* A stop function that can be called once only: the handle is dropped by
\* the first call and a second call throws.
stop_once(s, c) ==
    IF s.status[c] = "disposed"
    THEN [s EXCEPT !.stack = <<>>, !.error = TRUE]
    ELSE dispose(s, c)

\* The stop function returned by autorun.
stop(s, c) == dispose(s, c)

\* The bodies of the two autoruns of circular(first, setFirst, second,
\* setSecond).
circularBody(k, which) ==
    IF which = 1
    THEN <<Get(BindArgs(k).first), Ins("token", "", "", 2 * k + 1)>>
    ELSE <<Get(BindArgs(k).second), Ins("token", "", "", 2 * k)>>

\* The binding's autorun body without the token: the setter is always called.
tokenStep_always(s, k, which, v) ==
    Push([s EXCEPT !.setterCalls[k][IF which = 1 THEN 2 ELSE 1] = @ + 1],
         Frame(IF which = 1 THEN BindArgs(k).setSecond ELSE BindArgs(k).setFirst,
               NoComp, Listener(s), v))

\* The binding's autorun body without its else branch: the token, once
\* false, is never set back to true.
tokenStep_noReset(s, k, which, v) ==
    IF s.initial[k]
    THEN Push([s EXCEPT !.initial[k] = FALSE,
                        !.setterCalls[k][IF which = 1 THEN 2 ELSE 1] = @ + 1],
              Frame(IF which = 1 THEN BindArgs(k).setSecond ELSE BindArgs(k).setFirst,
                    NoComp, Listener(s), v))
    ELSE s

\* The token step calling the setter outside the computation's tracking.
tokenStep_untracked(s, k, which, v) ==
    IF s.initial[k]
    THEN Push([s EXCEPT !.initial[k] = FALSE,
                        !.setterCalls[k][IF which = 1 THEN 2 ELSE 1] = @ + 1],
              Frame(IF which = 1 THEN BindArgs(k).setSecond ELSE BindArgs(k).setFirst,
                    NoComp, NoComp, v))
    ELSE [s EXCEPT !.initial[k] = TRUE]

\* if (initial && !(initial = false)) setSecond(v); else initial = true
\* (setFirst(v) in the second autorun); v is the value just read.
tokenStep(s, k, which, v) ==
    IF s.initial[k]
    THEN Push([s EXCEPT !.initial[k] = FALSE,
                        !.setterCalls[k][IF which = 1 THEN 2 ELSE 1] = @ + 1],
              Frame(IF which = 1 THEN BindArgs(k).setSecond ELSE BindArgs(k).setFirst,
                    NoComp, Listener(s), v))
    ELSE [s EXCEPT !.initial[k] = TRUE]

\* circular creating the autorun that watches second before the one that
\* watches first.
circular_secondFirst(s, k) ==
    Push([s EXCEPT !.initial[k] = TRUE],
         Frame(<<Ins("autorun", "", "", 100 + 2 * k), Ins("stop2", "", "", k),
                 Ins("autorun", "", "", 100 + 2 * k + 1), Ins("stop1", "", "", k)>>,
               NoComp, Listener(s), Undefined))

\* circular(...): let initial = true, then the two autoruns in order.
circular(s, k) ==
    Push([s EXCEPT !.initial[k] = TRUE],
         Frame(<<Ins("autorun", "", "", 100 + 2 * k + 1), Ins("stop1", "", "", k),
                 Ins("autorun", "", "", 100 + 2 * k), Ins("stop2", "", "", k)>>,
               NoComp, Listener(s), Undefined))

\* A stop function of circular that forgets the second autorun.
circularStop_firstOnly(s, k) == stop(s, s.binding[k].c1)

\* The stop function returned by circular: stop1(); stop2().
circularStop(s, k) == stop(stop(s, s.binding[k].c1), s.binding[k].c2)

\* untrack with the enclosing computation left in place.
untrack_tracking(s, fn) ==
    Push(s, [Frame(fn, NoComp, Listener(s), Top(s).acc)
                EXCEPT !.used = TRUE, !.this = Top(s).this])

\* untrack that clears the active computation and does not put it back.
untrack_noRestore(s, fn) ==
    Push([s EXCEPT !.stack[Len(s.stack)].listener = NoComp],
         [Frame(fn, NoComp, NoComp, Top(s).acc)
                EXCEPT !.used = TRUE, !.this = Top(s).this])

\* untrack(fn): fn runs with no active computation; when it returns the
\* caller goes on with the computation it had and with fn's result.
untrack(s, fn) ==
    Push(s, [Frame(fn, NoComp, NoComp, Top(s).acc)
                EXCEPT !.used = TRUE, !.this = Top(s).this])

\* The slot where the host finds the property x names: on the object
\* itself or else on its prototype; "" when neither has it.
Holder(s, x) ==
    IF x \in s.reactified \/ s.descr[x] # "absent"
    THEN x
    ELSE IF ProtoOf(x) \in s.reactified \/ s.descr[ProtoOf(x)] # "absent"
         THEN ProtoOf(x)
         ELSE ""

\* The client's accessor pair of wingSize, called with the object of slot x
\* as `this`: return this._wingSize, and this._wingSize = v.
originalGet(s, x) ==
    LET h == Holder(s, BackingOf(x)) IN IF h = "" THEN Undefined ELSE s.value[h]

originalSet(s, x, v) ==
    [s EXCEPT !.value[BackingOf(x)] = v, !.descr[BackingOf(x)] = "data"]

\* let v = instance[vName]: the slot of the variable the instance finds,
\* its own or else the one its prototype holds.
VarSlot(s, x) ==
    IF x \in s.made THEN x ELSE IF ProtoOf(x) \in s.made THEN ProtoOf(x) ELSE x

\* __getReactiveVar(instance, vName, initialValue): if (v) return v;
\* instance[vName] = v = variable(initialValue).  The variable is then the
\* one at VarSlot.
__getReactiveVar(s, x, initialValue) ==
    IF VarSlot(s, x) \in s.made
    THEN s
    ELSE [s EXCEPT !.made = @ \cup {x}, !.value[x] = initialValue]

\* A reactive setter that leaves the original setter out.
setProp_noOriginal(s, x, v) ==
    LET h == Holder(s, x) IN
    IF h # "" /\ h \in s.reactified
    THEN LET s1 == __getReactiveVar(s, x, Undefined)
         IN  variable(s1, VarSlot(s1, x), v)
    ELSE SetAcc([s EXCEPT !.value[x] = v, !.descr[x] = "data"], v)

\* obj[prop]: a property without reactive accessor is read as the host
\* reads it; the reactive accessor's get is function () { const v =
\* __getReactiveVar(this, vName, initialValue); v(); return
\* originalGet.call(this) }, or return v() without an original getter.
getProp(s, x) ==
    LET h == Holder(s, x) IN
    IF h = ""
    THEN SetAcc(s, Undefined)
    ELSE IF h \in s.reactified
    THEN LET s1 == __getReactiveVar(s, x, s.value[h])
             s2 == variable(s1, VarSlot(s1, x), Undefined)
         IN  IF s.descr[h] = "accessor" THEN SetAcc(s2, originalGet(s2, x)) ELSE s2
    ELSE CASE s.descr[h] \in {"data", "frozen"} -> SetAcc(s, s.value[h])
           [] s.descr[h] \in {"accessor", "getter"} -> SetAcc(s, originalGet(s, x))
           [] OTHER -> SetAcc(s, Undefined)

\* obj[prop] = v: the reactive accessor's set is function (newValue) {
\* originalSet.call(this, newValue); const v = __getReactiveVar(this,
\* vName); v(newValue) }, without the first call when there is no original
\* setter.  Without reactive accessor the host stores the value, calls the
\* property's setter, or throws TypeError (the module is strict code) when
\* the property is not writable or has a getter only.
setProp(s, x, v) ==
    LET h == Holder(s, x) IN
    IF h # "" /\ h \in s.reactified
    THEN LET s0 == IF s.descr[h] = "accessor" THEN originalSet(s, x, v) ELSE s
             s1 == __getReactiveVar(s0, x, Undefined)
         IN  variable(s1, VarSlot(s1, x), v)
    ELSE IF h = "" \/ s.descr[h] = "data"
    THEN SetAcc([s EXCEPT !.value[x] = v, !.descr[x] = "data"], v)
    ELSE IF s.descr[h] \in {"frozen", "getter"}
    THEN Throw(s)
    ELSE SetAcc(originalSet(s, x, v), v)

\* The two slots belong to one object.
SameObject(x, y) ==
    \E o \in AllObjs, p, q \in PropNames : x = PropSlot(o, p) /\ y = PropSlot(o, q)

\* The object of slot x holds a __reactifiedProps__ Set of its own.
OwnsProps(s, x) == \E y \in s.__reactifiedProps__ : SameObject(x, y)

\* obj.__reactifiedProps__?.has(prop): the Set is the object's own or else
\* the one its prototype holds.
HasProp(s, x) ==
    IF OwnsProps(s, x)
    THEN x \in s.__reactifiedProps__
    ELSE ProtoOf(x) \in s.__reactifiedProps__

\* if (!obj.__reactifiedProps__) obj.__reactifiedProps__ = new Set();
\* obj.__reactifiedProps__.add(propName): a Set found on the prototype is
\* the one added to.
AddProp(s, x) ==
    IF OwnsProps(s, x) \/ ~OwnsProps(s, ProtoOf(x))
    THEN s.__reactifiedProps__ \cup {x}
    ELSE s.__reactifiedProps__ \cup {ProtoOf(x)}

\* _reactive(obj, propName): the descriptor found on obj or its prototype
\* decides.  An accessor with one function only, or a data property that
\* is not writable: console.warn and return.  Otherwise the reactive
\* accessor is defined on obj, around the original pair if there is one,
\* and the data property's value is kept as initialValue.
_reactive(s, x) ==
    LET h == Holder(s, x)
        d == IF h = "" THEN "absent" ELSE s.descr[h]
    IN  IF d \in {"getter", "setter", "frozen"}
        THEN [s EXCEPT !.warnings = @ + 1]
        ELSE [s EXCEPT !.reactified = @ \cup {x},
                       !.__reactifiedProps__ = AddProp(s, x),
                       !.descr[x] = IF d = "accessor" THEN "accessor" ELSE "data",
                       !.value[x] = IF h = "" THEN Undefined ELSE s.value[h]]

\* createReactiveAccessors(obj, [prop]): unless obj.__reactifiedProps__ has
\* prop already, const initialValue = obj[prop]; _reactive(obj, prop);
\* obj[prop] = initialValue.
createReactiveAccessors(s, x) ==
    IF HasProp(s, x)
    THEN s
    ELSE LET s1 == getProp(s, x)
         IN  setProp(_reactive(s1, x), x, Top(s1).acc)

\* The constructor of a decorated class as it was before it untracked: super(...args);
\* reactify(this, Class) in the caller's tracking context.
ReactiveDecoratorFinisher_tracked(s, k) ==
    Push(s, [Frame(ClassBody(k), NoComp, Listener(s), Undefined) EXCEPT !.this = s.nObjs])

\* The constructor of the class reactiveClassFinisher returns: under an
\* active computation (getListener()) the class's own constructor and
\* reactify(self, Class) run inside untrack; otherwise super(...args);
\* reactify(this, Class).  s.nObjs is the object being constructed.
ReactiveDecoratorFinisher(s, k) ==
    Push(s, [Frame(ClassBody(k), NoComp,
                   IF Listener(s) # NoComp THEN NoComp ELSE Listener(s), Undefined)
                EXCEPT !.this = s.nObjs])

\* new Class(): the constructor runs in the caller's tracking context with
\* a new object as `this`.
construct(s, k) ==
    IF s.nObjs >= MaxObjs
    THEN s
    ELSE IF Decorated(k)
    THEN ReactiveDecoratorFinisher([s EXCEPT !.nObjs = @ + 1], k)
    ELSE Push([s EXCEPT !.nObjs = @ + 1],
              [Frame(ClassBody(k), NoComp, Listener(s), Undefined)
                    EXCEPT !.this = s.nObjs + 1])

\* autorun has returned computation c's stop function to the client: c
\* exists and its first run, which autorun makes before it returns, is over.
HandleSet(s, c) ==
    /\ s.status[c] # "none"
    /\ ~(s.runCount[c] = 1 /\ \E j \in 1 .. Len(s.stack) : s.stack[j].self = c)

\* The function a body number stands for.
BodyOf(n) ==
    IF n > 100 THEN circularBody((n - 100) \div 2, (n - 100) % 2) ELSE ClientBody(n)

(* ----------------------------- interpreter ---------------------------- *)

\* Returning from the innermost frame.
Return(s) ==
    LET fr == Top(s)
        s1 == [s EXCEPT !.stack = SubSeq(@, 1, Len(@) - 1)]
        s2 == IF s1.stack = <<>>
              THEN [s1 EXCEPT !.result = fr.acc]
              ELSE IF fr.used THEN SetAcc(s1, fr.result) ELSE s1
    IN  IF fr.self # NoComp
        THEN [endRun(s2, fr.self) EXCEPT !.returned[fr.self] = fr.result]
        ELSE s2

\* The computation whose run is executing, NoComp outside every run.
Running(s) ==
    LET R == {j \in 1 .. Len(s.stack) : s.stack[j].self # NoComp}
    IN  IF R = {} THEN NoComp ELSE s.stack[CHOOSE j \in R : \A m \in R : m <= j].self

\* The last of the writes of the current call for which P holds, 0 if none.
LastWrite(s, P(_)) ==
    LET W == {j \in 1 .. Len(s.inflight) : P(s.inflight[j])}
    IN  IF W = {} THEN 0 ELSE CHOOSE j \in W : \A m \in W : m <= j

\* c's run for the write e has started and has not finished.
RunningFor(e, c) == Contains(e.started, c) /\ ~Contains(e.done, c)

\* History of a write call: the depth of the calling frame, the subscribers
\* at the time of the call in subscriber order, which of their runs have
\* started and finished, and the run (of which earlier write) that made it.
NoteWrite(s, x, v) ==
    LET by == Running(s)
        e == [d |-> Len(s.stack), x |-> x, v |-> v, by |-> by,
              parent |-> LastWrite(s, LAMBDA w : by # NoComp /\ RunningFor(w, by)),
              queue |-> SelectSeq(s.observers[x],
                                  LAMBDA c : s.status[c] = "live" /\ x \in s.sources[c]),
              started |-> <<>>, done |-> <<>>, ret |-> FALSE]
    IN  [s EXCEPT !.inflight = Append(@, e)]

\* History of a run of c starting: it answers the latest write that has c
\* among its subscribers and has not seen c start.
NoteStart(s, c) ==
    LET j == LastWrite(s, LAMBDA w : Contains(w.queue, c) /\ ~Contains(w.started, c))
    IN  IF j = 0 THEN s ELSE [s EXCEPT !.inflight[j].started = Append(@, c)]

\* History of a run of c finishing.
NoteDone(s, c) ==
    LET j == LastWrite(s, LAMBDA w : RunningFor(w, c))
    IN  IF j = 0 THEN s ELSE [s EXCEPT !.inflight[j].done = Append(@, c)]

\* History of stop(c): a subscriber that has not started is no longer due.
NoteStop(s, c) ==
    [s EXCEPT !.stopCalled = @ \cup {c},
              !.inflight = [j \in 1 .. Len(@) |->
                    IF Contains(@[j].started, c) THEN @[j]
                    ELSE [@[j] EXCEPT !.queue = Remove(@, c)]]]

\* History of control being back in a frame: the writes that frame or a
\* deeper one made have returned.
NoteReturns(s) ==
    [s EXCEPT !.inflight = [j \in 1 .. Len(@) |->
                    IF @[j].d >= Len(s.stack) THEN [@[j] EXCEPT !.ret = TRUE] ELSE @[j]]]

\* The variable or property slot an instruction is about.
Target(i, fr) ==
    IF i.op \in {"field", "reactify", "pget", "pset", "declare"}
    THEN PropSlot(fr.this, i.x)
    ELSE i.x

\* The property of slot x is reached through a reactive accessor.
Reactive(s, x) == Holder(s, x) # "" /\ Holder(s, x) \in s.reactified

\* The variable an instruction calls: the one named, or the one behind the
\* property.
SignalOf(s, i, fr) ==
    IF i.op \in {"pget", "pset", "oget", "oset"}
    THEN VarSlot(s, Target(i, fr))
    ELSE Target(i, fr)

\* The instruction calls a variable with a value to store.
Stores(s, i, fr) ==
    /\ \/ i.op \in {"set", "setter"}
       \/ i.op \in {"pset", "oset"} /\ Reactive(s, Target(i, fr))
    /\ Eval(i.f, fr.acc, i.n) # Undefined

\* The instruction gives a value to a variable, a property or a field.
Gives(i) == i.op \in {"set", "setter", "pset", "oset", "field"}

\* The instruction calls a variable to read it.
Reads(s, i, fr) ==
    \/ i.op \in {"get", "getter", "when"}
    \/ i.op = "getif" /\ fr.acc # 0
    \/ i.op \in {"set", "setter"} /\ Eval(i.f, fr.acc, i.n) = Undefined
    \/ /\ i.op \in {"pget", "pset", "oget", "oset"}
       /\ Reactive(s, Target(i, fr))
       /\ ~Stores(s, i, fr)

\* History kept for the properties below, recorded as an instruction is
\* reached: a write call on x counts for every live computation that read x
\* on its latest run; a stop call is remembered; so is every read a
\* computation's body makes, the reads of the run in progress apart.
Observe(s, i, fr) ==
    CASE Stores(s, i, fr) ->
            NoteWrite([s EXCEPT !.notified =
                [c \in Comps |-> IF s.status[c] = "live" /\ SignalOf(s, i, fr) \in s.sources[c]
                                 THEN @[c] + 1 ELSE @[c]]],
                      SignalOf(s, i, fr), Eval(i.f, fr.acc, i.n))
      [] i.op = "stop" -> NoteStop(s, i.n)
      [] i.op = "stopif" -> IF HandleSet(s, i.n) THEN NoteStop(s, i.n) ELSE s
      [] i.op = "circularStop" ->
            NoteStop(NoteStop(s, s.binding[i.n].c1), s.binding[i.n].c2)
      [] i.op = "autorun" /\ s.nComps < MaxComps ->
            [s EXCEPT !.createdBy[s.nComps + 1] = Running(s)]
      [] Reads(s, i, fr) /\ (fr.listener # NoComp \/ fr.self # NoComp) ->
            LET x == SignalOf(s, i, fr)
                s1 == IF fr.listener # NoComp
                      THEN [s EXCEPT !.readEver[fr.listener] = @ \cup {x}]
                      ELSE s
            IN  IF fr.self # NoComp
                THEN [s1 EXCEPT !.readLast[fr.self] = @ \cup {x}]
                ELSE s1
      [] OTHER -> s

\* History recorded after an instruction: the run it started, if any, which
\* has read nothing yet.
Observed(s, t) ==
    LET C == {c \in Comps : t.runCount[c] > s.runCount[c]}
        c == CHOOSE c \in C : TRUE
    IN  IF C = {} \/ t.error
        THEN t
        ELSE NoteStart([t EXCEPT !.received[c] =
                            [arg |-> Top(t).acc, before |-> s.lastResult[c]],
                                 !.readLast[c] = {}], c)

\* One instruction of the innermost frame.
Exec(s) ==
    LET fr == Top(s)
        i == fr.code[fr.pc]
        s0 == [s EXCEPT !.stack[Len(s.stack)].pc = @ + 1]
        s1 == Observe(IF Gives(i)
                      THEN [s0 EXCEPT !.written[Target(i, fr)] = Eval(i.f, fr.acc, i.n)]
                      ELSE s0, i, fr)
    IN  Observed(s1,
          CASE i.op = "get" -> variable(s1, i.x, Undefined)
            [] i.op = "getif" ->
                  IF fr.acc # 0 THEN SetAcc(readSignal(s1, i.x), fr.acc) ELSE s1
            [] i.op = "set" -> variable(s1, i.x, Eval(i.f, fr.acc, i.n))
            [] i.op = "getter" -> readVariable(s1, i.x)
            [] i.op = "setter" -> writeVariable(s1, i.x, Eval(i.f, fr.acc, i.n))
            [] i.op = "when" ->
                  LET s2 == readSignal(s1, i.x) IN
                  IF s1.value[i.x] # 0 /\ s1.value[i.x] # Undefined
                  THEN s2
                  ELSE [s2 EXCEPT !.stack[Len(s.stack)].pc = @ + i.n]
            [] i.op = "result" ->
                  [s1 EXCEPT !.stack[Len(s.stack)].result = Eval(i.f, fr.acc, i.n)]
            [] i.op = "untrack" -> untrack(s1, BodyOf(i.n))
            [] i.op = "new" -> construct(s1, i.n)
            [] i.op = "field" ->
                  [s1 EXCEPT !.value[PropSlot(fr.this, i.x)] = Eval(i.f, fr.acc, i.n),
                             !.descr[PropSlot(fr.this, i.x)] = "data"]
            [] i.op = "declare" -> [s1 EXCEPT !.descr[PropSlot(fr.this, i.x)] = i.f]
            [] i.op = "define" -> [s1 EXCEPT !.descr[i.x] = i.f, !.value[i.x] = i.n]
            [] i.op = "oreactify" -> createReactiveAccessors(s1, i.x)
            [] i.op = "oget" -> getProp(s1, i.x)
            [] i.op = "oset" -> setProp(s1, i.x, Eval(i.f, fr.acc, i.n))
            [] i.op = "reactify" -> createReactiveAccessors(s1, PropSlot(fr.this, i.x))
            [] i.op = "pget" -> getProp(s1, PropSlot(fr.this, i.x))
            [] i.op = "pset" ->
                  setProp(s1, PropSlot(fr.this, i.x), Eval(i.f, fr.acc, i.n))
            [] i.op = "rerun" -> runComputation(s1, i.n)
            [] i.op = "autorun" -> autorun(s1, BodyOf(i.n))
            [] i.op = "stop" -> stop(s1, i.n)
            [] i.op = "stopif" -> IF HandleSet(s1, i.n) THEN stop(s1, i.n) ELSE s1
            [] i.op = "token" -> tokenStep(s1, i.n \div 2, i.n % 2, fr.acc)
            [] i.op = "circular" -> circular(s1, i.n)
            [] i.op = "stop1" -> [s1 EXCEPT !.binding[i.n].c1 = fr.acc]
            [] i.op = "stop2" -> [s1 EXCEPT !.binding[i.n].c2 = fr.acc]
            [] i.op = "circularStop" -> circularStop(s1, i.n)
            [] OTHER -> s1)

StepOf(s) ==
    LET s1 == NoteReturns(s) IN
    IF Top(s).pc > Len(Top(s).code)
    THEN IF Top(s).self # NoComp
         THEN NoteDone([Return(s1) EXCEPT !.lastResult[Top(s).self] = Top(s).result],
                       Top(s).self)
         ELSE Return(s1)
    ELSE Exec(s1)

(* ------------------------------ behaviour ----------------------------- *)

\* The state before the client has called anything.
InitState ==
    [value |-> [x \in Signals |-> IF x \in VarIds THEN 0 ELSE Undefined],
     observers |-> [x \in Signals |-> <<>>],
     sources |-> [c \in Comps |-> {}],
     status |-> [c \in Comps |-> "none"],
     code |-> [c \in Comps |-> <<>>],
     runCount |-> [c \in Comps |-> 0],
     nComps |-> 0,
     stack |-> <<>>,
     initial |-> [k \in BindIds |-> TRUE],
     binding |-> [k \in BindIds |-> [c1 |-> NoComp, c2 |-> NoComp]],
     setterCalls |-> [k \in BindIds |-> <<0, 0>>],
     error |-> FALSE,
     returned |-> [c \in Comps |-> Undefined],
     result |-> Undefined,
     nObjs |-> 0,
     reactified |-> {},
     descr |-> [x \in PropIds |-> "absent"],
     made |-> {},
     __reactifiedProps__ |-> {},
     warnings |-> 0,
     notified |-> [c \in Comps |-> 0],
     stopCalled |-> {},
     readEver |-> [c \in Comps |-> {}],
     readLast |-> [c \in Comps |-> {}],
     inflight |-> <<>>,
     received |-> [c \in Comps |-> [arg |-> Undefined, before |-> Undefined]],
     lastResult |-> [c \in Comps |-> Undefined],
     createdBy |-> [c \in Comps |-> NoComp],
     written |-> [x \in Signals |-> IF x \in VarIds THEN 0 ELSE Undefined]]

Init ==
    /\ value = InitState.value
    /\ observers = InitState.observers
    /\ sources = InitState.sources
    /\ status = InitState.status
    /\ code = InitState.code
    /\ runCount = InitState.runCount
    /\ nComps = InitState.nComps
    /\ stack = InitState.stack
    /\ initial = InitState.initial
    /\ binding = InitState.binding
    /\ setterCalls = InitState.setterCalls
    /\ error = InitState.error
    /\ returned = InitState.returned
    /\ result = InitState.result
    /\ nObjs = InitState.nObjs
    /\ reactified = InitState.reactified
    /\ descr = InitState.descr
    /\ made = InitState.made
    /\ __reactifiedProps__ = InitState.__reactifiedProps__
    /\ warnings = InitState.warnings
    /\ notified = InitState.notified
    /\ stopCalled = InitState.stopCalled
    /\ readEver = InitState.readEver
    /\ readLast = InitState.readLast
    /\ inflight = InitState.inflight
    /\ received = InitState.received
    /\ lastResult = InitState.lastResult
    /\ createdBy = InitState.createdBy
    /\ written = InitState.written
    /\ ops = 0
    /\ lastOp = [op |-> "none", x |-> "", n |-> 0, before |-> InitState]

\* No call is in progress.
Idle == stack = <<>> /\ ~error

\* The client runs a piece of its own code outside every computation: the
\* code is entered here and Step runs it until it returns.
Invoke(c, limit) ==
    /\ Idle
    /\ ops < limit
    /\ ops' = ops + 1
    /\ stack' = <<Frame(c, NoComp, NoComp, Undefined)>>
    /\ lastOp' = [op |-> IF Len(c) = 1 THEN c[1].op ELSE "script",
                  x |-> c[1].x, n |-> c[1].n,
                  before |-> [State EXCEPT !.inflight = <<>>, !.result = Undefined]]
    /\ inflight' = <<>>
    /\ result' = Undefined
    /\ UNCHANGED <<value, observers, sources, status, code, runCount, nComps,
                   initial, binding, setterCalls, error, returned,
                   nObjs, reactified, descr, made, __reactifiedProps__, warnings, notified, stopCalled, readEver, readLast, received,
                   lastResult, createdBy, written>>

\* The client calls one library function.
Call(i, limit) == Invoke(<<i>>, limit)

\* The pending call advances by one instruction or one return.
Step ==
    /\ stack # <<>>
    /\ Becomes(StepOf(State))
    /\ UNCHANGED <<ops, lastOp>>

\* v(value) or v.set(value) called by the client.
ExtWrite == \E x \in VarIds, v \in Values : Call(SetConst(x, v), MaxOps)

\* autorun(f) called by the client with one of the reader functions.
ExtAutorun ==
    \E n \in {1, 2, 3} : nComps < MaxAutoruns /\ Call(Ins("autorun", "", "", n), MaxOps)

\* A stop function called by the client, also one that was called before.
ExtStop == \E c \in 1 .. nComps : Call(Ins("stop", "", "", c), MaxOps)

Next == Step \/ ExtWrite \/ ExtAutorun \/ ExtStop

Spec == Init /\ [][Next]_vars

(* A client whose autoruns write variables that other autoruns read. *)

\* autorun(f) called by the client with a function that copies one variable
\* to another, or one that reads two.
ExtAutorunRelay ==
    \E n \in {2, 4, 5, 6} :
        nComps < MaxComps /\ Call(Ins("autorun", "", "", n), MaxRelayOps)

\* a or b written by the client; c is written by the autoruns only.
ExtWriteRelay ==
    \E x \in {"a", "b"}, v \in Values : Call(SetConst(x, v), MaxRelayOps)

NextRelay == Step \/ ExtWriteRelay \/ ExtAutorunRelay

SpecRelay == Init /\ [][NextRelay]_vars

(* A client that binds a and b with circular and watches them. *)

\* circular() has returned for binding k.
Installed(k) == binding[k].c2 # NoComp

\* autorun(() => { a(); b() }) called by the client.
ExtWatch == nComps < MaxComps /\ Call(Ins("autorun", "", "", 2), MaxOps)

\* circular(a, setA, b, setB) called by the client, once, with the first or
\* the second pair of setters.
ExtCircular ==
    \E k \in {1, 2} :
        /\ \A j \in BindIds : binding[j].c1 = NoComp
        /\ nComps + 2 <= MaxComps
        /\ Call(Ins("circular", "", "", k), MaxOps)

\* The stop function returned by circular called by the client.
ExtCircularStop ==
    \E k \in BindIds : Installed(k) /\ Call(Ins("circularStop", "", "", k), MaxOps)

\* The client writes a, or writes b an even value (b() / 2 is then a whole
\* number).
ExtWriteBound ==
    \E v \in Values :
        Call(SetConst("a", v), MaxOps) \/ Call(SetConst("b", 2 * v), MaxOps)

NextCircular == Step \/ ExtWatch \/ ExtCircular \/ ExtCircularStop \/ ExtWriteBound

SpecCircular == Init /\ [][NextCircular]_vars

(* A client whose autoruns use untrack and construct objects. *)

\* autorun(f) called by the client with a function that reads inside
\* untrack, one that reads c, or one that constructs a Bar.
ExtAutorunUntrack ==
    \E n \in {7, 8, 9, 12, 13} :
        /\ nComps < MaxComps
        /\ n \in {12, 13} => nObjs < MaxObjs
        /\ Call(Autorun(n), MaxUntrackOps)

\* a or b written by the client; c is written inside untrack only.
ExtWriteUntrack ==
    \E x \in {"a", "b"}, v \in Values : Call(SetConst(x, v), MaxUntrackOps)

NextUntrack == Step \/ ExtAutorunUntrack \/ ExtWriteUntrack

SpecUntrack == Init /\ [][NextUntrack]_vars

(* A client that reads and writes a in every way, undefined included. *)

\* a(v) or a.set(v), v any value or undefined.
ExtSet ==
    \E v \in Values \cup {Undefined} :
        Call(SetConst("a", v), MaxValueOps) \/ Call(Setter("a", v), MaxValueOps)

\* a() or a.get().
ExtGet == Call(Get("a"), MaxValueOps) \/ Call(Getter("a"), MaxValueOps)

\* autorun(() => { a() }) or autorun(() => a()) called by the client.
ExtAutorunValue ==
    \E n \in {1, 14} : nComps < MaxAutoruns /\ Call(Autorun(n), MaxValueOps)

NextValue == Step \/ ExtSet \/ ExtGet \/ ExtAutorunValue

SpecValue == Init /\ [][NextValue]_vars

(* A client with readers of a, of b and of both, which writes a or b, or
   both in a row. *)

\* autorun(f) called by the client with a reader of a, of a and b, or of b.
ExtAutorunPair ==
    \E n \in {1, 2, 6} : nComps < MaxComps /\ Call(Autorun(n), MaxPairOps)

\* a(v) or b(v) called by the client.
ExtWritePair ==
    \E x \in {"a", "b"}, v \in Values : Call(SetConst(x, v), MaxPairOps)

\* a(v); b(v) run by the client as one piece of code.
ExtWriteBoth ==
    \E v \in Values : Invoke(<<SetConst("a", v), SetConst("b", v)>>, MaxPairOps)

NextPair == Step \/ ExtAutorunPair \/ ExtWritePair \/ ExtWriteBoth

SpecPair == Init /\ [][NextPair]_vars

(* A client whose autorun creates another autorun on every run. *)

\* A run of the outer autorun can still create its inner autorun.
RoomToNest == nComps < MaxComps

\* autorun(() => { a(); autorun(() => { b() }) }) called by the client, once.
ExtAutorunNested == nComps = 0 /\ Call(Autorun(15), MaxNestedOps)

\* a(v) or b(v) called by the client.
ExtWriteNested ==
    \E x \in {"a", "b"}, v \in Values :
        /\ (x = "a" /\ nComps > 0 /\ status[1] = "live") => RoomToNest
        /\ Call(SetConst(x, v), MaxNestedOps)

\* The stop function autorun returned to the client; the inner autorun's
\* stop function is dropped by the outer body.
ExtStopNested == nComps > 0 /\ Call(Ins("stop", "", "", 1), MaxNestedOps)

NextNested == Step \/ ExtAutorunNested \/ ExtWriteNested \/ ExtStopNested

SpecNested == Init /\ [][NextNested]_vars

(* A client whose autoruns write the variable they read. *)

\* autorun(f) called by the client with () => { a(a() + 1) },
\* () => { if (c()) a(a() + 1) } or a reader of a.
ExtAutorunCycle ==
    \E n \in {1, 16, 17} : nComps < MaxAutoruns /\ Call(Autorun(n), MaxCycleOps)

\* a(v) or c(v) called by the client.
ExtWriteCycle ==
    \E x \in {"a", "c"}, v \in Values : Call(SetConst(x, v), MaxCycleOps)

NextCycle == Step \/ ExtAutorunCycle \/ ExtWriteCycle

SpecCycle == Init /\ [][NextCycle]_vars

(* A client with one Butterfly b whose constructor calls reactify. *)

\* const b = new Butterfly(), once.
ExtNewButterfly == nObjs = 0 /\ Call(New(3), MaxButterflyOps)

\* autorun(f) called by the client with a reader of b.colors or of
\* b.colors and b.wingSize.
ExtAutorunButterfly ==
    \E n \in {20, 21} :
        nObjs = 1 /\ nComps < MaxAutoruns /\ Call(Autorun(n), MaxButterflyOps)

\* b.colors = v or b.wingSize = v, v a number.
ExtAssign ==
    \E p \in {"colors", "wingSize"}, v \in Values :
        nObjs = 1 /\ Call(SetOf(1, p, "const", v), MaxButterflyOps)

\* b.colors++ or b.wingSize++.
ExtIncrement ==
    \E p \in {"colors", "wingSize"} :
        nObjs = 1 /\ Invoke(<<GetOf(1, p), SetOf(1, p, "inc", 0)>>, MaxButterflyOps)

\* b.colors, b.wingSize or b._wingSize read by the client.
ExtReadProp ==
    \E p \in {"colors", "wingSize", "_wingSize"} :
        nObjs = 1 /\ Call(GetOf(1, p), MaxButterflyOps)

NextButterfly ==
    Step \/ ExtNewButterfly \/ ExtAutorunButterfly \/ ExtAssign \/ ExtIncrement
         \/ ExtReadProp

SpecButterfly == Init /\ [][NextButterfly]_vars

(* The client with one Butterfly, assigning undefined as well. *)

\* b.colors = undefined or b.wingSize = undefined.
ExtAssignUndefined ==
    \E p \in {"colors", "wingSize"} :
        nObjs = 1 /\ Call(SetOf(1, p, "const", Undefined), MaxButterflyOps)

NextUnset ==
    Step \/ ExtNewButterfly \/ ExtAutorunButterfly \/ ExtAssign \/ ExtAssignUndefined
         \/ ExtReadProp

SpecUnset == Init /\ [][NextUnset]_vars

(* A client that constructs the decorated class Bar, in an autorun or not. *)

\* autorun(() => { b = new Bar() }), or a reader of the first object's amount.
ExtAutorunDecorated ==
    \E n \in {19, 23} :
        /\ nComps < MaxAutoruns
        /\ IF n = 19 THEN nObjs < MaxObjs ELSE nObjs >= 1
        /\ Call(Autorun(n), MaxDecoratedOps)

\* new Bar() called by the client outside every autorun.
ExtNewDecorated == nObjs < MaxObjs /\ Call(New(5), MaxDecoratedOps)

\* o.amount = v or o.double = v on an object constructed before.
ExtAssignDecorated ==
    \E o \in 1 .. nObjs, p \in {"amount", "double"}, v \in Values :
        Call(SetOf(o, p, "const", v), MaxDecoratedOps)

NextDecorated == Step \/ ExtAutorunDecorated \/ ExtNewDecorated \/ ExtAssignDecorated

SpecDecorated == Init /\ [][NextDecorated]_vars

(* A client that puts properties of every kind on an object o and calls
   reactify on them. *)

\* Object.defineProperty(o, 'colors', {value: 3, writable: true or false}).
ExtDefineData ==
    \E kind \in {"data", "frozen"} :
        /\ descr[PropSlot(1, "colors")] = "absent"
        /\ Call(Define(1, "colors", kind, 3), MaxDescriptorOps)

\* o._wingSize = 2 and Object.defineProperty(o, 'wingSize', d), d having
\* the getter, the setter or both.
ExtDefineAccessor ==
    \E kind \in {"accessor", "getter", "setter"} :
        /\ descr[PropSlot(1, "wingSize")] = "absent"
        /\ Invoke(<<Define(1, "_wingSize", "data", 2),
                    Define(1, "wingSize", kind, Undefined)>>, MaxDescriptorOps)

\* reactify(o, [p]).
ExtReactify ==
    \E p \in {"colors", "wingSize"} : Call(ReactifyOf(1, p), MaxDescriptorOps)

\* o.colors, o.wingSize or o._wingSize read by the client.
ExtReadAny ==
    \E p \in {"colors", "wingSize", "_wingSize"} :
        Call(GetOf(1, p), MaxDescriptorOps)

NextDescriptor == Step \/ ExtDefineData \/ ExtDefineAccessor \/ ExtReactify \/ ExtReadAny

SpecDescriptor == Init /\ [][NextDescriptor]_vars

(* A client with two instances of one class: the class whose constructor
   calls reactify, or the function-style class whose prototype was given to
   reactify. *)

\* reactify was called on the prototype.
PrototypeReactified == PropSlot(Proto, "colors") \in reactified

\* Butterfly.prototype = { colors: 3, _wingSize: 2, get wingSize() {...},
\* set wingSize(s) {...} }; reactify(Butterfly.prototype, ['colors',
\* 'wingSize']), before any instance exists.
ExtReactifyPrototype ==
    /\ nObjs = 0
    /\ ~PrototypeReactified
    /\ Invoke(<<Define(Proto, "colors", "data", 3), Define(Proto, "_wingSize", "data", 2),
                Define(Proto, "wingSize", "accessor", Undefined),
                ReactifyOf(Proto, "colors"), ReactifyOf(Proto, "wingSize")>>,
              MaxInstanceOps)

\* new Butterfly(): the function-style class once its prototype is
\* reactive, the class with reactify in its constructor otherwise.
ExtNewInstance ==
    /\ nObjs < MaxObjs
    /\ Call(New(IF PrototypeReactified THEN 4 ELSE 3), MaxInstanceOps)

\* autorun(f) called by the client with a reader of the first instance or
\* of the second.
ExtAutorunInstance ==
    \E n \in {21, 22} :
        /\ nComps < MaxAutoruns
        /\ nObjs >= n - 20
        /\ Call(Autorun(n), MaxInstanceOps)

\* o.colors = v or o.wingSize = v on one of the instances.
ExtAssignInstance ==
    \E o \in 1 .. nObjs, p \in {"colors", "wingSize"}, v \in Values :
        Call(SetOf(o, p, "const", v), MaxInstanceOps)

NextInstance ==
    Step \/ ExtReactifyPrototype \/ ExtNewInstance \/ ExtAutorunInstance
         \/ ExtAssignInstance

SpecInstance == Init /\ [][NextInstance]_vars

(* A client whose autoruns read a once, twice, or only while c is truthy. *)

\* autorun(f) called by the client with a reader of a, a conditional reader
\* of a, or a function that reads a twice.
ExtAutorunSubscribe ==
    \E n \in {1, 3, 24} : nComps < MaxComps /\ Call(Autorun(n), MaxSubscribeOps)

\* a(v) or c(v) called by the client.
ExtWriteSubscribe ==
    \E x \in {"a", "c"}, v \in Values : Call(SetConst(x, v), MaxSubscribeOps)

\* A stop function called by the client.
ExtStopSubscribe ==
    \E c \in 1 .. nComps : Call(Ins("stop", "", "", c), MaxSubscribeOps)

NextSubscribe == Step \/ ExtAutorunSubscribe \/ ExtWriteSubscribe \/ ExtStopSubscribe

SpecSubscribe == Init /\ [][NextSubscribe]_vars

(* A client whose autoruns read again after a write that re-runs another
   autorun, or after creating one. *)

\* The live computations that create an autorun on every run.
Nesting == {c \in 1 .. nComps : status[c] = "live" /\ code[c] = ClientBody(26)}

\* autorun(f) called by the client with a reader of b, a function that
\* writes b and then reads c, or one that creates a reader of b and then
\* reads c.
ExtAutorunReentrant ==
    \E n \in {6, 25, 26} :
        /\ nComps + (IF n = 26 THEN 2 ELSE 1) <= MaxComps
        /\ Call(Autorun(n), MaxReentrantOps)

\* a(v) or c(v) called by the client; b is written by the autoruns.
ExtWriteReentrant ==
    \E x \in {"a", "c"}, v \in Values :
        /\ nComps + Cardinality(Nesting) <= MaxComps
        /\ Call(SetConst(x, v), MaxReentrantOps)

\* a(), b() or c() called by the client.
ExtReadReentrant == \E x \in VarIds : Call(Get(x), MaxReentrantOps)

NextReentrant == Step \/ ExtAutorunReentrant \/ ExtWriteReentrant \/ ExtReadReentrant

SpecReentrant == Init /\ [][NextReentrant]_vars

(* A client whose autoruns stop one another, or themselves. *)

\* autorun(f) called by the client with a reader of a, or a reader of a
\* that calls the second or the third autorun's stop function.
ExtAutorunStopping ==
    \E n \in {1, 27, 28} : nComps < MaxComps /\ Call(Autorun(n), MaxStoppingOps)

\* a(v) or b(v) called by the client.
ExtWriteStopping ==
    \E x \in {"a", "b"}, v \in Values : Call(SetConst(x, v), MaxStoppingOps)

NextStopping == Step \/ ExtAutorunStopping \/ ExtWriteStopping

SpecStopping == Init /\ [][NextStopping]_vars

(* A client whose autorun writes a, while c is truthy, before reading it. *)

\* autorun(f) called by the client with a reader of a or with
\* () => { if (c()) a(1); a() }.
ExtAutorunRetrack ==
    \E n \in {1, 29} : nComps < MaxComps /\ Call(Autorun(n), MaxRetrackOps)

\* a(v) or c(v) called by the client.
ExtWriteRetrack ==
    \E x \in {"a", "c"}, v \in Values : Call(SetConst(x, v), MaxRetrackOps)

NextRetrack == Step \/ ExtAutorunRetrack \/ ExtWriteRetrack

SpecRetrack == Init /\ [][NextRetrack]_vars

(* A client whose objects make a property of their own reactive in the
   constructor and share a prototype that may have a reactive property. *)

\* Thing.prototype.colors = 3; reactify(Thing.prototype, ['colors']).
ExtReactifyBase ==
    /\ PropSlot(Proto, "colors") \notin reactified
    /\ Invoke(<<Define(Proto, "colors", "data", 3), ReactifyOf(Proto, "colors")>>,
              MaxSharedOps)

\* new Thing().
ExtNewThing == nObjs < MaxObjs /\ Call(New(6), MaxSharedOps)

\* autorun(f) called by the client with a reader of the first object's
\* amount or of the second's.
ExtAutorunThing ==
    \E n \in {23, 30} :
        /\ nComps < MaxAutoruns
        /\ nObjs >= (IF n = 23 THEN 1 ELSE 2)
        /\ Call(Autorun(n), MaxSharedOps)

\* o.amount = v on one of the objects.
ExtAssignThing ==
    \E o \in 1 .. nObjs, v \in Values : Call(SetOf(o, "amount", "const", v), MaxSharedOps)

NextShared == Step \/ ExtReactifyBase \/ ExtNewThing \/ ExtAutorunThing \/ ExtAssignThing

SpecShared == Init /\ [][NextShared]_vars

(* A client that binds a and b with setters that read c. *)

\* circular(a, () => a(c()), b, () => b(c())) called by the client, once.
ExtCircularSetter ==
    /\ binding[3].c1 = NoComp
    /\ nComps + 2 <= MaxComps
    /\ Call(Ins("circular", "", "", 3), MaxSetterOps)

\* a(v), b(v) or c(v) called by the client.
ExtWriteSetter ==
    \E x \in VarIds, v \in Values : Call(SetConst(x, v), MaxSetterOps)

NextSetter == Step \/ ExtCircularSetter \/ ExtWriteSetter

SpecSetter == Init /\ [][NextSetter]_vars

(* A client that binds a and b with a setSecond that writes nothing. *)

\* circular(a, v => a(v), b, v => {}) called by the client, once.
ExtCircularAbsorb ==
    /\ binding[4].c1 = NoComp
    /\ nComps + 2 <= MaxComps
    /\ Call(Ins("circular", "", "", 4), MaxAbsorbOps)

\* a(v) or b(v) called by the client.
ExtWriteAbsorb ==
    \E x \in {"a", "b"}, v \in Values : Call(SetConst(x, v), MaxAbsorbOps)

NextAbsorb == Step \/ ExtCircularAbsorb \/ ExtWriteAbsorb

SpecAbsorb == Init /\ [][NextAbsorb]_vars

(* A client that binds a to b and b to c. *)

\* circular(a, v => a(v), b, v => b(v)) or circular(b, v => b(v), c,
\* v => c(v)) called by the client, each once, in either order.
ExtCircularChain ==
    \E k \in {2, 5} :
        /\ binding[k].c1 = NoComp
        /\ nComps + 2 <= MaxChainComps
        /\ Call(Ins("circular", "", "", k), MaxChainOps)

\* a(v), b(v) or c(v) called by the client.
ExtWriteChain ==
    \E x \in VarIds, v \in Values : Call(SetConst(x, v), MaxChainOps)

NextChain == Step \/ ExtCircularChain \/ ExtWriteChain

SpecChain == Init /\ [][NextChain]_vars

(* ------------------------------ properties ---------------------------- *)

\* The call the client made last has returned.
Returned == stack = <<>>

\* c is subscribed to no variable.
Unsubscribed(c) == \A x \in Signals : ~Contains(observers[x], c)

\* C1: a live autorun's body has run once for the autorun call and once for
\* every write call made on a variable it had read on its latest run: after
\* n such writes the run count is 1 + n, whichever of its variables they
\* went to.
C1_OneRunPerWrite ==
    Idle => \A c \in 1 .. nComps :
                status[c] = "live" => runCount[c] = 1 + notified[c]

\* Scenario A, with the two writes going to two different variables.
C1_Witness ==
    /\ Idle
    /\ \E c \in 1 .. nComps :
          /\ status[c] = "live" /\ sources[c] = {"a", "b"}
          /\ notified[c] = 2 /\ runCount[c] = 3
          /\ value["a"] = 1 /\ value["b"] = 1

\* C2: when autorun(f) returns, f has run exactly once.
C2_FirstRunSynchronous ==
    (Returned /\ lastOp.op = "autorun") =>
        /\ ~error
        /\ nComps = lastOp.before.nComps + 1
        /\ runCount[nComps] = 1

\* autorun has returned, its body has read its variables, and no write was
\* made since the autorun was created.
C2_Witness ==
    /\ Returned /\ lastOp.op = "autorun"
    /\ runCount[nComps] = 1 /\ notified[nComps] = 0
    /\ readEver[nComps] = {"a", "b"}

\* C3: once its stop function has been called a computation is in no
\* subscriber list and its body is not started again.
C3_StoppedNeverRuns ==
    [][\A c \in stopCalled :
          /\ runCount'[c] = runCount[c]
          /\ Unsubscribed(c)
          /\ Unsubscribed(c)']_vars

\* Scenario B: the autorun ran three times, was stopped, and a variable it
\* had read is written afterwards.
C3_Witness ==
    /\ Returned /\ lastOp.op = "set"
    /\ \E c \in lastOp.before.stopCalled :
          /\ lastOp.x \in readEver[c]
          /\ runCount[c] = 3

\* C4: a second or later call of a stop function changes nothing and throws
\* nothing.
C4_StopIdempotent ==
    (Returned /\ lastOp.op = "stop" /\ lastOp.n \in lastOp.before.stopCalled) =>
        /\ ~error
        /\ value = lastOp.before.value
        /\ observers = lastOp.before.observers
        /\ sources = lastOp.before.sources
        /\ status = lastOp.before.status
        /\ runCount = lastOp.before.runCount
        /\ stopCalled = lastOp.before.stopCalled

\* stop() called again on a computation that had run and been stopped.
C4_Witness ==
    /\ Returned /\ lastOp.op = "stop" /\ ~error
    /\ lastOp.n \in lastOp.before.stopCalled
    /\ runCount[lastOp.n] >= 2

\* The computations made from () => { if (c()) a() }.
Conditional(k) == k \in 1 .. nComps /\ code[k] = ClientBody(3)

\* C5: a computation that reads a only while c is truthy is not re-run by a
\* write to a made after a run that found c falsy, and is re-run by a write
\* to a made after a run that found c truthy.
C5_DynamicDependencies ==
    (lastOp.op = "set" /\ lastOp.x = "a") =>
        \A k \in Comps :
            (Conditional(k) /\ lastOp.before.status[k] = "live") =>
                IF lastOp.before.value["c"] = 0
                THEN runCount[k] = lastOp.before.runCount[k]
                ELSE Returned => runCount[k] = lastOp.before.runCount[k] + 1

\* The computation read a on an earlier run, then ran with c falsy, and a
\* is written.
C5_Witness ==
    /\ Returned /\ lastOp.op = "set" /\ lastOp.x = "a"
    /\ \E k \in Comps :
          /\ Conditional(k) /\ status[k] = "live"
          /\ "a" \in readEver[k]
          /\ lastOp.before.value["c"] = 0
          /\ runCount[k] = lastOp.before.runCount[k]

\* The binding k was installed and not stopped when the last call was made.
BoundBefore(k) ==
    /\ lastOp.before.binding[k].c2 # NoComp
    /\ lastOp.before.binding[k].c1 \notin lastOp.before.stopCalled

\* The stop function of binding k had been called when the last call was made.
UnboundBefore(k) ==
    /\ lastOp.before.binding[k].c2 # NoComp
    /\ lastOp.before.binding[k].c1 \in lastOp.before.stopCalled

\* The last call was a write to x by the client.
Wrote(x) == lastOp.op = "set" /\ lastOp.x = x

\* C6: while a binding is installed, a client's write to first or second
\* returns without error after each binding computation ran exactly once,
\* only the partner's setter was called, exactly once, and the token is
\* back at the value it had when circular returned (true).
C6_BindingSettles ==
    /\ (Returned /\ lastOp.op = "circular") => ~error /\ initial[lastOp.n] = TRUE
    /\ \A k \in BindIds :
          (Returned /\ BoundBefore(k) /\ (Wrote("a") \/ Wrote("b"))) =>
              /\ ~error
              /\ runCount[binding[k].c1] = lastOp.before.runCount[binding[k].c1] + 1
              /\ runCount[binding[k].c2] = lastOp.before.runCount[binding[k].c2] + 1
              /\ setterCalls[k] =
                    IF Wrote("a")
                    THEN [lastOp.before.setterCalls[k] EXCEPT ![2] = @ + 1]
                    ELSE [lastOp.before.setterCalls[k] EXCEPT ![1] = @ + 1]
              /\ initial[k] = TRUE

\* With v => a(v) and v => b(v) as setters, both a and b have been written
\* by the client and each write was carried over to the other variable.
C6_Witness ==
    /\ Returned /\ ~error /\ BoundBefore(2) /\ Wrote("b")
    /\ value["a"] = 2 /\ value["b"] = 2
    /\ setterCalls[2] = <<1, 2>>
    /\ runCount[binding[2].c1] = 3 /\ runCount[binding[2].c2] = 3

\* The computations made from () => { a(); b() } before binding k.
WatcherBefore(o, k) ==
    /\ o \in 1 .. lastOp.before.nComps
    /\ code[o] = ClientBody(2)
    /\ o < binding[k].c1

\* C7: with circular(a, () => a(b() / 2), b, () => b(a() * 2)) and an
\* autorun created earlier that reads a and b: installing the binding runs
\* that autorun once more; a client's write a(v) returns with a = v and
\* b = 2v, a write b(w) returns with b = w and a = w / 2, and each such
\* write runs the autorun exactly twice.
C7_NumberDouble ==
    Returned =>
        /\ lastOp.op = "circular" /\ lastOp.n = 1 =>
              \A o \in Comps : WatcherBefore(o, 1) =>
                  runCount[o] = lastOp.before.runCount[o] + 1
        /\ BoundBefore(1) /\ Wrote("a") =>
              /\ value["a"] = lastOp.n /\ value["b"] = 2 * lastOp.n
              /\ \A o \in Comps : WatcherBefore(o, 1) =>
                    runCount[o] = lastOp.before.runCount[o] + 2
        /\ BoundBefore(1) /\ Wrote("b") =>
              /\ value["b"] = lastOp.n /\ 2 * value["a"] = lastOp.n
              /\ \A o \in Comps : WatcherBefore(o, 1) =>
                    runCount[o] = lastOp.before.runCount[o] + 2

\* The test's trace: count 1, 2 after circular, 4 after a(2), 6 after b(2)
\* with a = 1 and b = 2.
C7_Witness ==
    /\ Returned /\ BoundBefore(1) /\ Wrote("b") /\ lastOp.n = 2
    /\ WatcherBefore(1, 1)
    /\ runCount[1] = 6 /\ lastOp.before.runCount[1] = 4
    /\ lastOp.before.value["a"] = 2 /\ lastOp.before.value["b"] = 4
    /\ value["a"] = 1 /\ value["b"] = 2

\* C8: once the stop function of circular has been called, neither binding
\* computation is in a subscriber list, and a client's write to a calls no
\* setter and leaves b as it was, a write to b calls no setter and leaves a
\* as it was.
C8_BindingStopped ==
    \A k \in BindIds :
        /\ binding[k].c1 \in stopCalled =>
              Unsubscribed(binding[k].c1) /\ Unsubscribed(binding[k].c2)
        /\ UnboundBefore(k) =>
              /\ setterCalls[k] = lastOp.before.setterCalls[k]
              /\ Wrote("a") => value["b"] = lastOp.before.value["b"]
              /\ Wrote("b") => value["a"] = lastOp.before.value["a"]

\* The binding carried a write over, was stopped, and the client then wrote
\* b a value that a does not follow.
C8_Witness ==
    /\ Returned /\ UnboundBefore(1) /\ Wrote("b")
    /\ setterCalls[1] = <<0, 2>>
    /\ value["b"] = 4 /\ value["a"] = 1

IsPrefix(p, q) == Len(p) <= Len(q) /\ \A j \in 1 .. Len(p) : p[j] = q[j]

\* Every subscriber the write e had has been re-run to the end.
Complete(e) == \A j \in 1 .. Len(e.queue) : Contains(e.done, e.queue[j])

\* The write e has returned to its caller.
HasReturned(e) == e.ret \/ Len(stack) <= e.d

\* Write m was made by a run that write j triggered, directly or through
\* further writes.
RECURSIVE CausedBy(_, _)
CausedBy(m, j) ==
    /\ m > j
    /\ inflight[m].parent # 0
    /\ (inflight[m].parent = j \/ CausedBy(inflight[m].parent, j))

\* C9: when a write call has returned, every subscriber it had has run to
\* the end, and so has every subscriber of every write made by those runs;
\* and while the subscribers run the variable holds the value of the latest
\* write to it.
C9_WriteSynchronous ==
    ~error =>
        \A j \in 1 .. Len(inflight) :
            /\ HasReturned(inflight[j]) =>
                  /\ Complete(inflight[j])
                  /\ \A m \in 1 .. Len(inflight) :
                        CausedBy(m, j) => Complete(inflight[m])
            /\ (\A m \in j + 1 .. Len(inflight) : inflight[m].x # inflight[j].x) =>
                  value[inflight[j].x] = inflight[j].v

\* The client's write of a was copied to b and then to c by two autoruns,
\* each write with a subscriber, before it returned.
C9_Witness ==
    /\ Returned /\ Wrote("a") /\ Len(inflight) = 3
    /\ inflight[2].parent = 1 /\ inflight[3].parent = 2
    /\ inflight[2].queue # <<>> /\ Complete(inflight[2])
    /\ inflight[3].x = "c" /\ value["c"] = lastOp.n /\ lastOp.n # 0

\* C10: the subscribers of a write start in subscriber order, one after the
\* other has finished; and while a write made by a subscriber's run still
\* has subscribers to run, that run has not finished (so the next
\* subscriber of the first write has not started).
C10_SubscriberOrder ==
    ~error =>
        \A j \in 1 .. Len(inflight) :
            LET e == inflight[j] IN
            /\ IsPrefix(e.started, e.queue)
            /\ IsPrefix(e.done, e.started)
            /\ Len(e.started) <= Len(e.done) + 1
            /\ (e.parent # 0 /\ ~Complete(e)) =>
                  /\ RunningFor(inflight[e.parent], e.by)
                  /\ inflight[e.parent].started[Len(inflight[e.parent].started)] = e.by

\* A write had two subscribers; the first one's run wrote a variable the
\* second reads, so the second ran for that write before it ran in its turn.
C10_Witness ==
    /\ Returned /\ Len(inflight) >= 2
    /\ Len(inflight[1].queue) = 2 /\ inflight[1].done = inflight[1].queue
    /\ inflight[2].parent = 1 /\ inflight[2].by = inflight[1].queue[1]
    /\ inflight[2].queue = <<inflight[1].queue[2]>>
    /\ inflight[2].done = inflight[2].queue

\* The computations made from () => { a(); untrack(() => b()) }.
Untracker(k) == k \in 1 .. nComps /\ code[k] = ClientBody(7)

\* The computations made from () => { new Bar() } with Bar's constructor
\* assigning this.double = this.amount * 2 inside untrack.
UntrackedBuilder(k) == k \in 1 .. nComps /\ code[k] = ClientBody(12)

\* C11: a variable read only inside untrack is not a dependency of the
\* computation: between calls the computation that reads a and, inside
\* untrack, b depends on a alone and is not among b's subscribers, and a
\* write to b does not run it; an autorun that constructs an object whose
\* constructor reads and writes reactive properties inside untrack runs
\* once, depends on nothing and raises no error.
C11_UntrackedNotDependency ==
    \A k \in Comps :
        /\ (Untracker(k) /\ Idle) =>
              sources[k] = {"a"} /\ ~Contains(observers["b"], k)
        /\ (Untracker(k) /\ Wrote("b") /\ lastOp.before.status[k] = "live") =>
              runCount[k] = lastOp.before.runCount[k]
        /\ UntrackedBuilder(k) =>
              /\ runCount[k] = 1
              /\ ~error
              /\ Idle => sources[k] = {}

\* The computation was re-run by a write to a, an object was constructed in
\* an autorun with both properties reactive and double = 2 * amount, and b
\* has been written a new value.
C11_Witness ==
    /\ Returned /\ Wrote("b") /\ value["b"] # lastOp.before.value["b"]
    /\ \E k \in Comps : Untracker(k) /\ runCount[k] = 2
    /\ \E k \in Comps, o \in Objs :
          /\ UntrackedBuilder(k) /\ runCount[k] = 1
          /\ {PropSlot(o, "amount"), PropSlot(o, "double")} \subseteq reactified
          /\ value[PropSlot(o, "amount")] = 3
          /\ value[PropSlot(o, "double")] = 6

\* The computations made from
\* () => { const r = untrack(() => { const v = b(); c(v); return 2 * v });
\*         a(); return r }.
Resumer(k) == k \in 1 .. nComps /\ code[k] = ClientBody(8)

\* The computations made from () => { c() }.
ReaderOfC(k) == k \in 1 .. nComps /\ code[k] = ClientBody(9)

\* The innermost frame is the run of such a computation at position pc.
ResumerAt(pc) ==
    /\ stack # <<>>
    /\ Resumer(Top(State).self)
    /\ Top(State).pc = pc

\* C12: when untrack(fn) has returned, the caller holds fn's result (twice
\* the value of b that fn read and copied to c) and every live computation
\* that reads c has already run for fn's write; the function returns that
\* result; the read of a made after untrack is tracked, the read of b made
\* inside is not, so that between calls the computation depends on a alone
\* and a write to a runs it once more.
C12_UntrackReturnsAndRestores ==
    /\ ResumerAt(2) =>
          /\ Top(State).acc = 2 * value["b"]
          /\ value["c"] = value["b"]
          /\ \A m \in Comps :
                (ReaderOfC(m) /\ status[m] = "live") => runCount[m] = 1 + notified[m]
    /\ (ResumerAt(3) \/ ResumerAt(4)) => Top(State).result = 2 * value["c"]
    /\ \A k \in Comps :
          /\ (Resumer(k) /\ Idle) => sources[k] = {"a"}
          /\ (Resumer(k) /\ Returned /\ Wrote("a") /\ lastOp.before.status[k] = "live") =>
                runCount[k] = lastOp.before.runCount[k] + 1

\* b holds 1; a computation reads c; the computation that copies b to c
\* inside untrack was created and then run again by a write to a, and each
\* of its runs ran the reader of c.
C12_Witness ==
    /\ Returned /\ Wrote("a") /\ value["b"] = 1 /\ value["c"] = 1
    /\ \E k, m \in Comps :
          /\ Resumer(k) /\ runCount[k] = 2 /\ lastResult[k] = 2
          /\ ReaderOfC(m) /\ m < k /\ runCount[m] = 3

\* The last call was a read of x by the client, in either form.
ReadBack(x) == lastOp.op \in {"get", "getter"} /\ lastOp.x = x

\* C13: a read, by v() or v.get(), returns the value most recently given
\* to the variable by v(value) or v.set(value), whatever that value was,
\* undefined included.
C13_ReadReturnsWritten ==
    (Returned /\ ~error /\ ReadBack("a")) => result = written["a"]

\* The last call was a(v) or a.set(v) with v the value a already held.
WroteSame(x) ==
    /\ lastOp.op \in {"set", "setter"} /\ lastOp.x = x
    /\ lastOp.n # Undefined
    /\ lastOp.n = lastOp.before.value[x]

\* c was live and had read x on its latest run when the last call was made.
SubscribedBefore(c, x) ==
    lastOp.before.status[c] = "live" /\ x \in lastOp.before.sources[c]

\* C14: a write of the value the variable already holds has run every
\* subscriber once more by the time it returns.
C14_EqualWriteNotifies ==
    (Returned /\ WroteSame("a")) =>
        /\ ~error
        /\ \A c \in Comps :
              SubscribedBefore(c, "a") => runCount[c] = lastOp.before.runCount[c] + 1

\* a held 2, two computations had read it, and 2 was written again.
C14_Witness ==
    /\ Returned /\ WroteSame("a") /\ value["a"] = 2
    /\ SubscribedBefore(1, "a") /\ SubscribedBefore(2, "a")
    /\ runCount[1] = lastOp.before.runCount[1] + 1
    /\ runCount[2] = lastOp.before.runCount[2] + 1

\* C15: the first run of a computation is handed no value (undefined), and
\* every later run is handed the value the run before it returned.
C15_PreviousValueArgument ==
    \A c \in 1 .. nComps :
        runCount[c] >= 1 =>
            received[c].arg = IF runCount[c] = 1 THEN Undefined ELSE received[c].before

\* () => a() has run three times: it returned 1 on its second run, was
\* handed 1 on its third and returned 2.
C15_Witness ==
    \E c \in 1 .. nComps :
        /\ code[c] = ClientBody(14) /\ runCount[c] = 3
        /\ received[c].arg = 1 /\ lastResult[c] = 2 /\ Idle

\* C16: a write to x runs the computations that had read x on their latest
\* run, once each, and no other: a live computation that had not read x
\* keeps its run count and its dependency set throughout the write.
C16_OnlyReadersRun ==
    \A x \in {"a", "b"} :
        Wrote(x) =>
            \A c \in Comps :
                lastOp.before.status[c] = "live" =>
                    IF x \in lastOp.before.sources[c]
                    THEN Returned => runCount[c] = lastOp.before.runCount[c] + 1
                    ELSE /\ runCount[c] = lastOp.before.runCount[c]
                         /\ sources[c] = lastOp.before.sources[c]

\* A reader of a that a write to a had re-run was left alone by a write to
\* b, which re-ran a reader of b.
C16_Witness ==
    /\ Returned /\ Wrote("b")
    /\ \E c, d \in 1 .. nComps :
          /\ sources[c] = {"a"} /\ runCount[c] = 2
          /\ lastOp.before.runCount[c] = 2
          /\ sources[d] = {"b"} /\ runCount[d] = lastOp.before.runCount[d] + 1

\* The client's code a(v); b(v) has written a and has not yet written b.
BetweenTheWrites ==
    /\ lastOp.op = "script"
    /\ stack # <<>>
    /\ stack[1].pc = 2

\* C20: while the client's a(v); b(v) is between its two writes, no
\* computation that reads both a and b is running.
C20_NoRunBetweenWrites ==
    BetweenTheWrites =>
        \A c \in 1 .. nComps :
            code[c] = ClientBody(2) => \A j \in 1 .. Len(stack) : stack[j].self # c

\* Computation c was created by the body of computation p.
CreatedIn(c, p) == c \in 1 .. nComps /\ p # NoComp /\ createdBy[c] = p

Feedback(c) ==
    /\ c \in 1 .. nComps
    /\ code[c] \in {ClientBody(16), ClientBody(17)}
    /\ "a" \in sources[c]

\* C18: a run that reads a variable and then writes it never ends: no such
\* run is ever about to return, no call of the client returns normally
\* leaving such a run behind, and when the call stack is exhausted the
\* error has unwound every frame and reaches the client in its autorun or
\* write call, after MaxDepth / 2 - 1 runs of the computation or more.
C18_FeedbackExhaustsStack ==
    /\ stack # <<>> =>
          ~(Feedback(Top(State).self) /\ Top(State).pc > Len(Top(State).code))
    /\ Idle => \A c \in Comps : ~Feedback(c)
    /\ (lastOp.op = "autorun" /\ lastOp.n = 16 /\ Returned) => error
    /\ error =>
          /\ Returned
          /\ lastOp.op \in {"autorun", "set"}
          /\ \E c \in 1 .. nComps :
                /\ code[c] \in {ClientBody(16), ClientBody(17)}
                /\ runCount[c] >= MaxDepth \div 2 - 1
                /\ runCount[c] > lastOp.before.runCount[c] + 1

\* () => { if (c()) a(a() + 1) } was created while c was 0, and the
\* client's write c(1) ended in the error.
C18_Witness ==
    /\ error /\ lastOp.op = "set" /\ lastOp.x = "c"
    /\ lastOp.before.value["c"] = 0
    /\ \E c \in 1 .. nComps :
          /\ code[c] = ClientBody(17)
          /\ lastOp.before.runCount[c] = 1
          /\ runCount[c] >= MaxDepth \div 2 - 1
    /\ value["a"] > lastOp.before.value["a"] + 2

\* The value a read of the property of slot x is due: the value last
\* assigned to it, or else the one its field had when it was made reactive
\* (for wingSize the one of _wingSize).
LastGiven(x) ==
    IF written[x] # Undefined \/ x \notin {PropSlot(o, "wingSize") : o \in AllObjs}
    THEN written[x]
    ELSE written[BackingOf(x)]

\* The computations made from () => { b.colors } and from
\* () => { b.colors; b.wingSize }, and what they read.
ButterflyReader(c) == c \in 1 .. nComps /\ code[c] \in {ClientBody(20), ClientBody(21)}

ButterflyReads(c) ==
    IF code[c] = ClientBody(20)
    THEN {PropSlot(1, "colors")}
    ELSE {PropSlot(1, "colors"), PropSlot(1, "wingSize")}

\* The last call was an assignment to the property of slot x, plain or ++.
Assigned(x) == lastOp.op \in {"oset", "script"} /\ lastOp.x = x

\* C21: once new Butterfly() has returned, colors and wingSize are reactive
\* and read 3 and 2 as before; a read of either returns the number last
\* assigned to it (or that first value); the original pair of wingSize works
\* on _wingSize: _wingSize holds the number last assigned to wingSize, at
\* every moment from the assignment on, the re-runs it causes included; and
\* an autorun that reads the properties has run once plus once per
\* assignment of a number to a property it reads, and not for other
\* assignments.
C21_ReactifiedProperties ==
    /\ (Returned /\ lastOp.op = "new") =>
          /\ ~error
          /\ {PropSlot(1, "colors"), PropSlot(1, "wingSize")} \subseteq reactified
          /\ value[PropSlot(1, "colors")] = 3
          /\ originalGet(State, PropSlot(1, "wingSize")) = 2
    /\ (Returned /\ lastOp.op = "oget") =>
          result = LastGiven(IF lastOp.x = PropSlot(1, "_wingSize")
                             THEN PropSlot(1, "wingSize") ELSE lastOp.x)
    /\ written[PropSlot(1, "wingSize")] # Undefined =>
          value[PropSlot(1, "_wingSize")] = written[PropSlot(1, "wingSize")]
    /\ \A c \in Comps :
          ButterflyReader(c) =>
              /\ Idle => /\ runCount[c] = 1 + notified[c]
                         /\ sources[c] = ButterflyReads(c)
              /\ \A x \in PropIds :
                    Assigned(x) =>
                        IF x \in lastOp.before.sources[c]
                        THEN Returned => runCount[c] = lastOp.before.runCount[c] + 1
                        ELSE runCount[c] = lastOp.before.runCount[c]

\* The test's trace: the reader of both properties ran once, again for
\* b.colors++ (4) and again for b.wingSize++ (3), and b._wingSize reads 3.
C21_Witness ==
    /\ Idle /\ lastOp.op = "oget" /\ lastOp.x = PropSlot(1, "_wingSize")
    /\ result = 3
    /\ value[PropSlot(1, "colors")] = 4
    /\ \E c \in 1 .. nComps : code[c] = ClientBody(21) /\ runCount[c] = 3

\* The computations made from () => { b = new Bar() }, Bar decorated.
DecoratedBuilder(c) == c \in 1 .. nComps /\ code[c] = ClientBody(19)

\* C22: an autorun that constructs a decorated class tracks none of the
\* reads its constructors make: it has read no variable, depends on nothing
\* once its run has ended, raises no error and runs exactly once, whatever
\* is assigned afterwards to the properties of the objects constructed.
C22_DecoratedConstructorUntracked ==
    \A c \in Comps :
        DecoratedBuilder(c) =>
            /\ runCount[c] = 1
            /\ readEver[c] = {}
            /\ ~error
            /\ Idle => sources[c] = {}

\* The first object was constructed by the autorun, with double = 2 *
\* amount; a reader of its amount was re-run by an assignment to amount,
\* and the constructing autorun was not.
C22_Witness ==
    /\ Idle /\ nObjs = 1 /\ DecoratedBuilder(1)
    /\ lastOp.op = "oset" /\ lastOp.x = PropSlot(1, "amount")
    /\ lastOp.before.value[PropSlot(1, "amount")] = 3
    /\ value[PropSlot(1, "amount")] = lastOp.n
    /\ value[PropSlot(1, "double")] = 6
    /\ PropSlot(1, "double") \in reactified
    /\ \E d \in 1 .. nComps : code[d] = ClientBody(23) /\ runCount[d] = 2

\* The last call was reactify(o, [p]) on a property that was not writable
\* or an accessor with only one of its two functions.
ReactifiedUnfit ==
    /\ lastOp.op = "oreactify"
    /\ lastOp.before.descr[lastOp.x] \in {"frozen", "getter", "setter"}

\* C23: reactify on a data property that is not writable, or on an
\* accessor with a getter only or a setter only, returns without error
\* after one warning, the property being as it was and not reactive.
C23_UnfitPropertySkipped ==
    (Returned /\ ReactifiedUnfit) =>
        /\ ~error
        /\ warnings = lastOp.before.warnings + 1
        /\ descr[lastOp.x] = lastOp.before.descr[lastOp.x]
        /\ lastOp.x \notin reactified

\* What a read of the property of slot x returns in state s.
Reading(s, x) ==
    LET h == Holder(s, x) IN
    IF h = "" THEN Undefined
    ELSE IF s.descr[h] \in {"accessor", "getter"} THEN originalGet(s, x)
    ELSE IF h \in s.reactified THEN s.value[VarSlot(s, x)]
    ELSE s.value[h]

\* The computations made from the reader of instance o.
ReaderOfInstance(c, o) == c \in 1 .. nComps /\ code[c] = ClientBody(20 + o)

\* C24: an assignment to a reactive property of one instance leaves what
\* the property reads on the other instance as it was and runs no autorun
\* that reads the other instance only, whether the accessors were installed
\* by reactify in the constructor or by reactify on the prototype.
C24_PerInstanceVariables ==
    \A o, other \in Objs, p \in {"colors", "wingSize"} :
        (o # other /\ lastOp.op = "oset" /\ lastOp.x = PropSlot(o, p)
                   /\ other <= lastOp.before.nObjs) =>
            /\ Reading(State, PropSlot(other, p)) =
                    Reading(lastOp.before, PropSlot(other, p))
            /\ \A c \in Comps :
                  ReaderOfInstance(c, other) => runCount[c] = lastOp.before.runCount[c]

\* The innermost frame is a run of a computation of binding k (which = 1:
\* the first, 0: the second) that has read its variable and is at the test
\* of the token.
AtToken(k, which) ==
    /\ stack # <<>>
    /\ Top(State).pc <= Len(Top(State).code)
    /\ Top(State).code[Top(State).pc] = Ins("token", "", "", 2 * k + which)

\* setterCalls with one more call of the partner's setter: setSecond for a
\* run of the first computation, setFirst for a run of the second.
PartnerCalled(k, which) ==
    [setterCalls[k] EXCEPT ![IF which = 1 THEN 2 ELSE 1] = @ + 1]

\* C25 as stated: every run of a binding computation toggles the token; a
\* run that finds it true calls no setter, a run that finds it false calls
\* the partner's setter.
C25_TokenAsStated ==
    [][\A k \in BindIds, which \in {0, 1} :
          AtToken(k, which) =>
              /\ initial'[k] = ~initial[k]
              /\ setterCalls'[k] =
                    IF initial[k] THEN setterCalls[k] ELSE PartnerCalled(k, which)]_vars

\* C25, amended: every run of a binding computation toggles the token; a
\* run that finds it true sets it to false and calls the partner's setter,
\* a run that finds it false sets it to true and calls no setter; the first
\* run of the first computation finds it true, the first run of the second
\* computation finds it false.
C25_TokenToggles ==
    [][\A k \in BindIds, which \in {0, 1} :
          AtToken(k, which) =>
              /\ initial'[k] = ~initial[k]
              /\ setterCalls'[k] =
                    IF initial[k] THEN PartnerCalled(k, which) ELSE setterCalls[k]
              /\ runCount[Top(State).self] = 1 => initial[k] = (which = 1)]_vars

\* The binding was installed and the client wrote a: the first computation
\* found the token true and called setSecond for the second time, the
\* second computation found it false, and the token is true again.
C25_Witness ==
    /\ Returned /\ ~error /\ BoundBefore(2) /\ Wrote("a")
    /\ initial[2] = TRUE
    /\ setterCalls[2] = <<0, 2>>
    /\ runCount[binding[2].c1] = 2 /\ runCount[binding[2].c2] = 2
    /\ value["b"] = lastOp.n /\ lastOp.n # lastOp.before.value["b"]

\* The number of entries of c in the subscriber list of x.
Entries(x, c) == Cardinality({j \in 1 .. Len(observers[x]) : observers[x][j] = c})

\* C26: whenever no computation is running, a live computation is in the
\* subscriber list of a variable exactly when its body read that variable
\* during its most recent run, and it is there once however many times the
\* body read the variable.
C26_SubscribersAreLastReaders ==
    (Running(State) = NoComp /\ ~error) =>
        \A c \in Comps, x \in Signals :
            status[c] = "live" =>
                /\ Contains(observers[x], c) <=> x \in readLast[c]
                /\ Entries(x, c) <= 1

\* No call is in progress, a computation that read a twice on each of two
\* runs is subscribed to a, and another that read a on an earlier run and
\* not on its latest is still live.
C26_Witness ==
    /\ Idle
    /\ \E c \in Comps :
          /\ status[c] = "live" /\ code[c] = ClientBody(24) /\ runCount[c] >= 2
          /\ Contains(observers["a"], c)
    /\ \E c \in Comps :
          /\ status[c] = "live" /\ code[c] = ClientBody(3)
          /\ "a" \in readEver[c] \ readLast[c]

\* The client's own code is executing, outside every run.
InClient == Len(stack) = 1 /\ stack[1].self = NoComp /\ stack[1].pc <= Len(stack[1].code)

\* C27: the active computation is pushed and popped with each run.  While a
\* run executes, the computation of that run is the active one, so what a
\* live computation is recorded to depend on is what its own body has read
\* on this run, whether a write it made re-ran other computations or it
\* created an autorun in between; and once the outermost call has returned
\* none is active: a read by the client subscribes nobody.
C27_ContextPushPop ==
    /\ [](\A c \in Comps : status[c] = "live" => sources[c] = readLast[c])
    /\ []((stack # <<>> /\ Top(State).self # NoComp) =>
              Top(State).listener = Top(State).self)
    /\ [][(InClient /\ stack[1].code[stack[1].pc].op = "get") =>
              (observers' = observers /\ sources' = sources)]_vars

\* A call has returned during which a run of () => { b(a()); c() } wrote b,
\* a reader of b ran and finished, and the first then read c.
C27_Witness ==
    /\ Idle
    /\ \E j \in 1 .. Len(inflight) :
          LET e == inflight[j] IN
          /\ e.by # NoComp /\ code[e.by] = ClientBody(25)
          /\ e.done # <<>> /\ e.ret
          /\ sources[e.by] = {"a", "c"}
          /\ sources[e.done[1]] = {"b"}

\* A run of c is in progress.
OnStack(c) == \E j \in 1 .. Len(stack) : stack[j].self = c

KeptThenAdded(old, new) ==
    \E k \in 0 .. Len(new) :
        /\ SubSeq(new, 1, k) = SelectSeq(old, LAMBDA c : Contains(new, c))
        /\ \A j \in k + 1 .. Len(new) : ~Contains(old, new[j])

\* C29: a subscriber list keeps the order of first subscription.  Whatever
\* happens in one step (a read on a first run or a re-run, the end of a
\* run, a stop), the computations that stay in a variable's list stay in
\* the order they were in, and one that enters the list, for the first
\* time or after having left it, enters at the end.
C29_SubscriptionOrderKept ==
    [][\A x \in Signals : KeptThenAdded(observers[x], observers'[x])]_vars

\* The first computation, which reads a only while c is truthy, had
\* subscribed to a, left the list while a later reader of a stayed, and
\* has now read a again: it stands behind the later reader.
C29_Witness ==
    /\ Idle
    /\ code[1] = ClientBody(3)
    /\ "a" \in lastOp.before.readEver[1]
    /\ lastOp.before.observers["a"] = <<2>>
    /\ observers["a"] = <<2, 1>>

\* The next instruction is a write call on x.
WritingTo(x) ==
    /\ stack # <<>>
    /\ Top(State).pc <= Len(Top(State).code)
    /\ Top(State).code[Top(State).pc].op = "set"
    /\ Top(State).code[Top(State).pc].x = x
    /\ Eval(Top(State).code[Top(State).pc].f, Top(State).acc,
            Top(State).code[Top(State).pc].n) # Undefined

\* A run of c is due: the walk over a write's subscribers now starting has
\* c in it.
Triggered(c) ==
    /\ stack # <<>>
    /\ \E j \in 1 .. Len(Top(State).code) :
          Top(State).code[j] = Ins("rerun", "", "", c)

\* C30: the dependencies of a computation are cleared when a re-run of it
\* starts.  A write made while a run of c is in progress, to a variable
\* that c read on an earlier run and has not read on this one, starts no
\* further run of c and leaves none due.
C30_ClearedAtRerunStart ==
    [][\A c \in Comps, x \in VarIds :
          (/\ status[c] = "live" /\ OnStack(c)
           /\ x \in readEver[c] \ readLast[c]
           /\ WritingTo(x)) =>
              (runCount'[c] = runCount[c] /\ ~Triggered(c)')]_vars

\* A re-run of () => { if (c()) a(1); a() } has written a, which it read on
\* its previous run and has not read yet on this one; that write re-ran
\* another reader of a and has returned, and the re-run is about to read a.
C30_Witness ==
    /\ stack # <<>>
    /\ Top(State).self # NoComp
    /\ Top(State).code = ClientBody(29) /\ Top(State).pc = 3
    /\ runCount[Top(State).self] >= 2
    /\ "a" \in readEver[Top(State).self] \ readLast[Top(State).self]
    /\ inflight # <<>>
    /\ inflight[Len(inflight)].by = Top(State).self
    /\ inflight[Len(inflight)].x = "a"
    /\ inflight[Len(inflight)].done # <<>>

\* The function () => { o.amount } of the autoruns that read amount on o.
ReaderOfAmount(o) == ClientBody(IF o = 1 THEN 23 ELSE 30)

\* C31: every object whose constructor has called reactify(this,
\* ['amount']) on its writable property amount has amount reactive: an
\* assignment to o.amount re-runs, once, each autorun that reads amount on
\* o, whatever was made reactive before on the prototype or on another
\* object with the same prototype.
C31_ReactiveRegardless ==
    (Returned /\ ~error /\ lastOp.op = "oset") =>
        \A o \in Objs, c \in Comps :
            (/\ lastOp.x = PropSlot(o, "amount")
             /\ c <= lastOp.before.nComps
             /\ lastOp.before.status[c] = "live"
             /\ code[c] = ReaderOfAmount(o)) =>
                runCount[c] = lastOp.before.runCount[c] + 1

\* C32: a reactive property takes undefined like any other value: once
\* obj.p = undefined has returned, p having read a defined value before, p
\* reads undefined and every autorun that had read obj.p has run once more.
C32_UndefinedAssigned ==
    (/\ Returned /\ ~error
     /\ lastOp.op = "oset" /\ lastOp.n = Undefined
     /\ Reactive(lastOp.before, lastOp.x)
     /\ Reading(lastOp.before, lastOp.x) # Undefined) =>
        /\ Reading(State, lastOp.x) = Undefined
        /\ \A c \in Comps :
              (/\ lastOp.before.status[c] = "live"
               /\ VarSlot(lastOp.before, lastOp.x) \in lastOp.before.sources[c]) =>
                  runCount[c] = lastOp.before.runCount[c] + 1

\* C33: circular called by the client calls setSecond once, with the value
\* first has, and does not call setFirst: when it returns first is what it
\* was and the token is true.
C33_InstallCallsSetSecond ==
    /\ []((Returned /\ lastOp.op = "circular") =>
              /\ ~error
              /\ setterCalls[lastOp.n] = <<0, 1>>
              /\ value[BindArgs(lastOp.n).first] =
                    lastOp.before.value[BindArgs(lastOp.n).first]
              /\ initial[lastOp.n] = TRUE)
    /\ [][\A k \in BindIds :
              (AtToken(k, 1) /\ lastOp.op = "circular") =>
                  /\ Top(State)'.code = BindArgs(k).setSecond
                  /\ Top(State)'.acc = value[BindArgs(k).first]]_vars

\* circular(a, v => a(v), b, v => b(v)) has returned, a being 1 or 2 and b
\* another value when it was called: b is now what a is.
C33_Witness ==
    /\ Returned /\ ~error /\ lastOp.op = "circular" /\ lastOp.n = 2
    /\ lastOp.before.value["a"] # 0
    /\ lastOp.before.value["b"] # lastOp.before.value["a"]
    /\ value["b"] = value["a"]

\* The binding computation of binding k that watches first (which = 1) or
\* second (which = 0).
Watching(c, k, which) == c \in 1 .. nComps /\ code[c] = circularBody(k, which)

\* C34: the setters passed to circular run inside the tracked run of the
\* binding computation that calls them.  While setSecond executes, the
\* computation that watches first is the active one (for setFirst the one
\* that watches second), so c, which the setters read, is a dependency of
\* the first computation when circular returns; and a write of c by the
\* client re-runs, once, the binding computation that depended on c, each
\* run of a binding computation toggling the token.
C34_SettersTracked ==
    /\ [](\A which \in {0, 1} :
              (/\ stack # <<>>
               /\ Top(State).self = NoComp
               /\ Top(State).code = (IF which = 1 THEN BindArgs(3).setSecond
                                                  ELSE BindArgs(3).setFirst)
               /\ Running(State) # NoComp
               /\ Watching(Running(State), 3, which)) =>
                  Top(State).listener = Running(State))
    /\ []((Returned /\ lastOp.op = "circular") =>
              \E c \in Comps : Watching(c, 3, 1) /\ "c" \in sources[c])
    /\ []((Returned /\ Wrote("c")) =>
              \A c \in Comps :
                  (lastOp.before.status[c] = "live" /\ "c" \in lastOp.before.sources[c]) =>
                      runCount[c] = lastOp.before.runCount[c] + 1)
    /\ [][\A which \in {0, 1} : AtToken(3, which) => initial'[3] = ~initial[3]]_vars

\* The client has written c twice since the binding was installed and a
\* write of b made the second computation call setFirst: the second write
\* of c re-ran the second computation, whose setFirst had read c, and a and
\* b hold the value written.
C34_Witness ==
    /\ Returned /\ ~error /\ Wrote("c") /\ BoundBefore(3)
    /\ \E c \in Comps :
          /\ Watching(c, 3, 0)
          /\ "c" \in lastOp.before.sources[c]
          /\ runCount[c] = lastOp.before.runCount[c] + 1
    /\ value["a"] = lastOp.n /\ value["b"] = lastOp.n
    /\ lastOp.n # lastOp.before.value["a"]

\* C35: with the binding circular(a, v => a(v), b, v => {}) installed and
\* its token true, a write of a by the client makes the first computation
\* call setSecond, which returns without writing b: the second computation
\* does not run and the token is left false.  The client's next write, of a
\* or of b, is then absorbed: the computation of the variable written runs
\* once and only sets the token back to true, no setter is called, the
\* other computation does not run and the other variable keeps its value.
C35_UnwrittenSetterAbsorbsNext ==
    /\ (Returned /\ BoundBefore(4) /\ Wrote("a") /\ lastOp.before.initial[4]) =>
          /\ ~error
          /\ setterCalls[4] = [lastOp.before.setterCalls[4] EXCEPT ![2] = @ + 1]
          /\ value["b"] = lastOp.before.value["b"]
          /\ runCount[binding[4].c2] = lastOp.before.runCount[binding[4].c2]
          /\ initial[4] = FALSE
    /\ (Returned /\ BoundBefore(4) /\ (Wrote("a") \/ Wrote("b"))
                 /\ ~lastOp.before.initial[4]) =>
          LET mine == IF Wrote("a") THEN binding[4].c1 ELSE binding[4].c2
              other == IF Wrote("a") THEN binding[4].c2 ELSE binding[4].c1
              partner == IF Wrote("a") THEN "b" ELSE "a"
          IN  /\ ~error
              /\ runCount[mine] = lastOp.before.runCount[mine] + 1
              /\ runCount[other] = lastOp.before.runCount[other]
              /\ setterCalls[4] = lastOp.before.setterCalls[4]
              /\ initial[4] = TRUE
              /\ value[partner] = lastOp.before.value[partner]

\* After a write of a whose setSecond wrote nothing, the client has written
\* b: b holds the new value and a, which differs from it, was not updated.
C35_Witness ==
    /\ Returned /\ ~error /\ BoundBefore(4) /\ Wrote("b")
    /\ ~lastOp.before.initial[4]
    /\ setterCalls[4] = <<0, 2>>
    /\ value["b"] = lastOp.n
    /\ value["a"] # lastOp.n
    /\ initial[4] = TRUE

\* C36: with circular(a, v => a(v), b, v => b(v)) and circular(b,
\* v => b(v), c, v => c(v)) both installed, in whichever order, a write
\* of a, b or c by the client returns without error, a, b and c all
\* holding the value written and both tokens being true, as they were
\* when circular returned.
C36_ChainedBindingsSettle ==
    /\ (Returned /\ lastOp.op = "circular") => ~error /\ initial[lastOp.n] = TRUE
    /\ (Returned /\ BoundBefore(2) /\ BoundBefore(5) /\ lastOp.op = "set") =>
          /\ ~error
          /\ \A x \in VarIds : value[x] = lastOp.n
          /\ initial[2] = TRUE /\ initial[5] = TRUE

\* Both bindings being installed, the client has written c a value that
\* none of a, b and c held, after having written another variable: the
\* write went from c to b and from b to a, and every binding computation
\* ran for it.
C36_Witness ==
    /\ Returned /\ ~error /\ BoundBefore(2) /\ BoundBefore(5) /\ Wrote("c")
    /\ \A x \in VarIds : lastOp.before.value[x] # lastOp.n /\ value[x] = lastOp.n
    /\ \A c \in Comps : runCount[c] = lastOp.before.runCount[c] + 1
    /\ setterCalls[2][1] >= 1 /\ setterCalls[5][1] >= 1
    /\ runCount[binding[2].c1] >= 3

====
